---------------------------- MODULE Spec2Model ----------------------------
(***************************************************************************)
(* Veterinary chatbot backend: the conversation/appointment state machine  *)
(* (ChatController.handleMessage, AppointmentService) and the slot         *)
(* reservation engine (AppointmentSlotManager).                            *)
(*                                                                         *)
(* Text is modelled as sequences of one-character strings, so that trim,   *)
(* toLowerCase, includes and the digit filter are computed as the code     *)
(* computes them.  Instants are minutes since Monday 2026-06-01 00:00      *)
(* local time; the local zone is taken to have a whole-hour UTC offset, so *)
(* that a slot key (an ISO string) and the bucket start instant determine  *)
(* each other.                                                             *)
(***************************************************************************)
EXTENDS Integers, Sequences, FiniteSets, TLC

(***************************************************************************)
(* Bounds of the model                                                     *)
(***************************************************************************)
MaxTicks == 1          \* clock steps explored
MaxAppointments == 1   \* Appointment documents persisted
MaxProbes == 2         \* iterations followed in a getNextAvailableSlots loop
MaxDepth == 2          \* nested suggestion calls followed on the call stack
MaxReserveCalls == 2   \* direct reserveSlot calls followed per slot key
MaxCacheTicks == 2     \* minutes of cache time explored
MaxInflight == 1       \* calls of get waiting for their generator at a time
MaxHits == 1           \* accesses followed per cache entry
MaxPromotionHits == 7  \* accesses followed per cache entry where promote is to act

(***************************************************************************)
(* Program constants                                                       *)
(***************************************************************************)
slotDuration == 30
bufferTime == 10
ReservationMinutes == 5
MaxDailyAppointments == 20
SuggestionCount == 3

Sessions == {"s1", "s2"}

\* the sessions whose user only ever walks the booking path
Scripted == {"s2"}

MinutesPerDay == 24 * 60
TickMinutes == ReservationMinutes + 1      \* one clock step: just over the hold
Now0 == 8 * 60                             \* Monday 08:00
SixMonthsDays == 30 + 31 + 31 + 30 + 31 + 30   \* June .. November (setMonth(+6))
FarInstant == 214 * 1440 + 600 \* 2027-01-01 10:00
InvalidDate == 0 - 1           \* NaN time value / absent instant
NoText == << >>                \* undefined text field

(***************************************************************************)
(* Text primitives                                                         *)
(***************************************************************************)
UpperLetters ==
    <<"A","B","C","D","E","F","G","H","I","J","K","L","M",
      "N","O","P","Q","R","S","T","U","V","W","X","Y","Z">>

LowerLetters ==
    <<"a","b","c","d","e","f","g","h","i","j","k","l","m",
      "n","o","p","q","r","s","t","u","v","w","x","y","z">>

Digits == <<"0","1","2","3","4","5","6","7","8","9">>

IsDigit(c) == \E i \in 1..10 : Digits[i] = c

DigitVal(c) == (CHOOSE i \in 1..10 : Digits[i] = c) - 1

LowerChar(c) ==
    IF \E i \in 1..26 : UpperLetters[i] = c
    THEN LowerLetters[CHOOSE i \in 1..26 : UpperLetters[i] = c]
    ELSE c

toLowerCase(s) == [i \in 1..Len(s) |-> LowerChar(s[i])]

IsSpace(c) == c = " "

trim(s) ==
    IF \A i \in 1..Len(s) : IsSpace(s[i])
    THEN << >>
    ELSE LET first == CHOOSE i \in 1..Len(s) :
                         /\ ~IsSpace(s[i])
                         /\ \A j \in 1..(i-1) : IsSpace(s[j])
             last  == CHOOSE i \in 1..Len(s) :
                         /\ ~IsSpace(s[i])
                         /\ \A j \in (i+1)..Len(s) : IsSpace(s[j])
         IN SubSeq(s, first, last)

includes(s, p) ==
    \E i \in 0..(Len(s) - Len(p)) : SubSeq(s, i + 1, i + Len(p)) = p

IsDigitChar(c) == IsDigit(c)

stripNonDigits(s) == SelectSeq(s, IsDigitChar)

(***************************************************************************)
(* Phrase tables of AppointmentService                                     *)
(***************************************************************************)
bookingPhrases ==
    { <<"b","o","o","k"," ","a","n"," ","a","p","p","o","i","n","t","m","e","n","t">>,
      <<"b","o","o","k"," ","a","p","p","o","i","n","t","m","e","n","t">>,
      <<"s","c","h","e","d","u","l","e"," ","a","p","p","o","i","n","t","m","e","n","t">>,
      <<"m","a","k","e"," ","a","p","p","o","i","n","t","m","e","n","t">>,
      <<"b","o","o","k"," ","a"," ","v","i","s","i","t">>,
      <<"s","c","h","e","d","u","l","e"," ","a"," ","v","i","s","i","t">>,
      <<"s","e","e"," ","a"," ","v","e","t">>,
      <<"v","i","s","i","t"," ","v","e","t">>,
      <<"n","e","e","d"," ","a","p","p","o","i","n","t","m","e","n","t">>,
      <<"w","a","n","t"," ","a","p","p","o","i","n","t","m","e","n","t">>,
      <<"a","p","p","o","i","n","t","m","e","n","t"," ","p","l","e","a","s","e">>,
      <<"b","o","o","k"," ","c","o","n","s","u","l","t","a","t","i","o","n">>,
      <<"s","c","h","e","d","u","l","e"," ","c","o","n","s","u","l","t","a","t","i","o","n">>,
      <<"n","e","e","d"," ","t","o"," ","s","e","e"," ","v","e","t">>,
      <<"w","a","n","t"," ","t","o"," ","s","e","e"," ","v","e","t">>,
      <<"i"," ","w","a","n","t"," ","t","o"," ","b","o","o","k">>,
      <<"i"," ","n","e","e","d"," ","t","o"," ","b","o","o","k">>,
      <<"c","a","n"," ","i"," ","b","o","o","k">>,
      <<"l","i","k","e"," ","t","o"," ","b","o","o","k">>,
      <<"m","a","k","e"," ","a"," ","b","o","o","k","i","n","g">>,
      <<"s","c","h","e","d","u","l","e"," ","v","e","t">> }

cancelPhrases ==
    { <<"c","a","n","c","e","l">>,
      <<"s","t","o","p">>,
      <<"n","e","v","e","r","m","i","n","d">>,
      <<"f","o","r","g","e","t"," ","i","t">>,
      <<"e","x","i","t">> }

days ==
    << <<"s","u","n","d","a","y">>,
       <<"m","o","n","d","a","y">>,
       <<"t","u","e","s","d","a","y">>,
       <<"w","e","d","n","e","s","d","a","y">>,
       <<"t","h","u","r","s","d","a","y">>,
       <<"f","r","i","d","a","y">>,
       <<"s","a","t","u","r","d","a","y">> >>

W_tomorrow == <<"t","o","m","o","r","r","o","w">>
W_next == <<"n","e","x","t">>
W_today == <<"t","o","d","a","y">>
W_yes == <<"y","e","s">>
W_confirm == <<"c","o","n","f","i","r","m">>
W_y == <<"y">>
W_no == <<"n","o">>
W_cancel == <<"c","a","n","c","e","l">>
W_n == <<"n">>
W_am == <<"a","m">>
W_pm == <<"p","m">>

(***************************************************************************)
(* Messages a user sends                                                   *)
(***************************************************************************)
mBook == <<"I"," ","w","a","n","t"," ","t","o"," ","b","o","o","k">>
mJane == <<"J","a","n","e"," ","D","o","e">>
mRex == <<"R","e","x">>
mPhone == <<"5","5","5","-","1","2","3","-","4","5","6","7">>
mDate915 == <<"T","o","m","o","r","r","o","w"," ","9",":","1","5"," ","A","M">>
mDate945 == <<"T","o","m","o","r","r","o","w"," ","9",":","4","5"," ","A","M">>
mClosed == <<"t","o","m","o","r","r","o","w"," ","a","t"," ","8","p","m">>
mLunch == <<"t","o","m","o","r","r","o","w"," ","1","2",":","3","0","p","m">>
mSunday == <<"n","e","x","t"," ","s","u","n","d","a","y">>
mPast == <<"t","o","d","a","y"," ","a","t"," ","1","a","m">>
mFar == <<"2","0","2","7","-","0","1","-","0","1","T","1","0",":","0","0">>
mYes == <<"y","e","s">>
mY == <<" ","Y"," ">>
mNo == <<"n","o">>
mCancel == <<"C","a","n","c","e","l">>
mStop == <<"p","l","e","a","s","e"," ","s","t","o","p">>
mYesPlease == <<"y","e","s"," ","p","l","e","a","s","e">>
mBlank == <<" "," ">>
mHello == <<"h","e","l","l","o">>

Messages ==
    { mBook, mJane, mRex, mPhone, mDate915, mDate945, mClosed, mLunch,
      mSunday, mPast, mFar, mYes, mY, mNo, mCancel, mStop, mYesPlease,
      mBlank, mHello }

(***************************************************************************)
(* Calendar arithmetic on instants (Date getters and setters)              *)
(***************************************************************************)
StartOfDay(t) == (t \div MinutesPerDay) * MinutesPerDay

MinuteOfDay(t) == t % MinutesPerDay

getHours(t) == MinuteOfDay(t) \div 60

getMinutes(t) == MinuteOfDay(t) % 60

\* Date.prototype.getDay: 0 is Sunday; instant 0 is a Monday
getDay(t) == ((t \div MinutesPerDay) + 1) % 7

\* inputDate.setDate(getDate() + n); inputDate.setHours(h, m, 0, 0)
setDateHours(t, n, h, m) == StartOfDay(t) + n * MinutesPerDay + h * 60 + m


(***************************************************************************)
(* AppointmentService                                                      *)
(***************************************************************************)
detectBookingIntent(message) ==
    \E phrase \in bookingPhrases : includes(toLowerCase(message), phrase)

detectCancelIntent(message) ==
    \E phrase \in cancelPhrases : includes(toLowerCase(message), phrase)

\* the table with the pet-name question left out; C1 tells it from the
\* table of the code
getNextQuestionSkipping(state) ==
    CASE state = "ASK_OWNER_NAME" ->
            [message |-> "May I have your full name, please?", nextState |-> "ASK_PET_NAME"]
      [] state = "ASK_PET_NAME" ->
            [message |-> "What's the best phone number to reach you at?", nextState |-> "ASK_DATE_TIME"]
      [] state = "ASK_PHONE" ->
            [message |-> "What's the best phone number to reach you at?", nextState |-> "ASK_DATE_TIME"]
      [] state = "ASK_DATE_TIME" ->
            [message |-> "When would you prefer to schedule the appointment?", nextState |-> "CONFIRMATION"]
      [] state = "CONFIRMATION" ->
            [message |-> "Let me confirm your appointment details", nextState |-> "COMPLETED"]
      [] state = "COMPLETED" ->
            [message |-> "Your appointment has been successfully booked!", nextState |-> "NONE"]

getNextQuestion(state) ==
    CASE state = "ASK_OWNER_NAME" ->
            [message |-> "May I have your full name, please?", nextState |-> "ASK_PET_NAME"]
      [] state = "ASK_PET_NAME" ->
            [message |-> "What's your pet's name?", nextState |-> "ASK_PHONE"]
      [] state = "ASK_PHONE" ->
            [message |-> "What's the best phone number to reach you at?", nextState |-> "ASK_DATE_TIME"]
      [] state = "ASK_DATE_TIME" ->
            [message |-> "When would you prefer to schedule the appointment?", nextState |-> "CONFIRMATION"]
      [] state = "CONFIRMATION" ->
            [message |-> "Let me confirm your appointment details", nextState |-> "COMPLETED"]
      [] state = "COMPLETED" ->
            [message |-> "Your appointment has been successfully booked!", nextState |-> "NONE"]

\* validatePhone handing back the text as typed; C12 tells it from the code's
validatePhoneAsTyped(phone) ==
    IF Len(stripNonDigits(phone)) # 10
    THEN [valid |-> FALSE, message |-> "Please provide a valid 10-digit phone number.",
          cleaned |-> NoText]
    ELSE [valid |-> TRUE, message |-> "", cleaned |-> phone]

validatePhone(phone) ==
    IF Len(stripNonDigits(phone)) # 10
    THEN [valid |-> FALSE, message |-> "Please provide a valid 10-digit phone number.",
          cleaned |-> NoText]
    ELSE [valid |-> TRUE, message |-> "", cleaned |-> stripNonDigits(phone)]

\* first index at or after k that is not whitespace (Len(s) + 1 when none)
SkipSpaces(s, k) ==
    CHOOSE j \in k..(Len(s) + 1) :
        /\ \A i \in k..(j - 1) : IsSpace(s[i])
        /\ (j <= Len(s) => ~IsSpace(s[j]))

\* one alternative of /(\d{1,2})(?::(\d{2}))?\s*(am|pm)/ anchored at i:
\* d digits of hour, with or without the minutes group
TimeMatchAt(s, i, d, withMinutes) ==
    /\ i + d - 1 <= Len(s)
    /\ \A x \in i..(i + d - 1) : IsDigit(s[x])
    /\ withMinutes => /\ i + d + 2 <= Len(s)
                      /\ s[i + d] = ":"
                      /\ IsDigit(s[i + d + 1])
                      /\ IsDigit(s[i + d + 2])
    /\ (IF withMinutes THEN i + d + 3 ELSE i + d) <= Len(s)
    /\ \E m \in {SkipSpaces(s, IF withMinutes THEN i + d + 3 ELSE i + d)} :
          /\ m + 1 <= Len(s)
          /\ SubSeq(s, m, m + 1) \in {W_am, W_pm}

\* the alternatives in the order the regular expression engine tries them
TimeAlternatives == << <<2, TRUE>>, <<2, FALSE>>, <<1, TRUE>>, <<1, FALSE>> >>

parseInt(s) ==
    IF Len(s) = 1 THEN DigitVal(s[1]) ELSE 10 * DigitVal(s[1]) + DigitVal(s[2])

\* every (position, alternative) at which the expression matches
timeHits(s) ==
    {h \in (1..Len(s)) \X (1..4) :
        TimeMatchAt(s, h[1], TimeAlternatives[h[2]][1], TimeAlternatives[h[2]][2])}

\* the match the engine reports: leftmost position, first alternative there
firstHit(hits) ==
    CHOOSE h \in hits : \A g \in hits : h[1] < g[1] \/ (h[1] = g[1] /\ h[2] <= g[2])

\* the am/pm correction of the matched hour
meridiemHours(hours, meridiem) ==
    IF meridiem = W_pm /\ hours # 12 THEN hours + 12
    ELSE IF meridiem = W_am /\ hours = 12 THEN 0
    ELSE hours

\* hours and minutes of the match at i with d hour digits
timeGroups(s, i, d, withMinutes) ==
    [found |-> TRUE,
     hours |-> meridiemHours(
                  parseInt(SubSeq(s, i, i + d - 1)),
                  SubSeq(s, SkipSpaces(s, IF withMinutes THEN i + d + 3 ELSE i + d),
                            SkipSpaces(s, IF withMinutes THEN i + d + 3 ELSE i + d) + 1)),
     minutes |-> IF withMinutes THEN parseInt(SubSeq(s, i + d + 1, i + d + 2)) ELSE 0]

\* lowerStr.match(...)
timeMatch(s) ==
    IF \A h \in (1..Len(s)) \X (1..4) :
          ~TimeMatchAt(s, h[1], TimeAlternatives[h[2]][1], TimeAlternatives[h[2]][2])
    THEN [found |-> FALSE, hours |-> 0, minutes |-> 0]
    ELSE CHOOSE r \in {timeGroups(s, h[1], TimeAlternatives[h[2]][1], TimeAlternatives[h[2]][2]) :
                          h \in {firstHit(timeHits(s))}} : TRUE

\* new Date(str) for the strings that reach it: an ISO local date-time
\* literal yields its instant, text without a number yields an invalid Date
NewDate(str) == IF str = mFar THEN FarInstant ELSE InvalidDate

WeekdayNames == <<"Sunday", "Monday", "Tuesday", "Wednesday", "Thursday", "Friday", "Saturday">>

getDayName(t) == WeekdayNames[getDay(t) + 1]

\* toLocaleDateString('en-US', {weekday, year, month, day, hour, minute, hour12})
formatDate(t) ==
    << getDayName(t),
       t \div MinutesPerDay,
       IF getHours(t) % 12 = 0 THEN 12 ELSE getHours(t) % 12,
       getMinutes(t),
       IF getHours(t) < 12 THEN "AM" ELSE "PM" >>

\* inputDate.setHours(hours, minutes, 0, 0) with the matched time, or the
\* default hour of the branch
setTime(dayStart, timeMatched, defaultHours) ==
    IF timeMatched.found
    THEN dayStart + timeMatched.hours * 60 + timeMatched.minutes
    ELSE dayStart + defaultHours * 60

\* the first weekday named in the text (0 is Sunday), -1 when none
targetDay(lowerStr) ==
    IF \A i \in 1..7 : ~includes(lowerStr, days[i])
    THEN 0 - 1
    ELSE (CHOOSE i \in 1..7 :
             /\ includes(lowerStr, days[i])
             /\ \A j \in 1..(i - 1) : ~includes(lowerStr, days[j])) - 1

daysToAdd(target, currentDay) ==
    IF target - currentDay <= 0 THEN target - currentDay + 7 ELSE target - currentDay

\* the parsing branches of validateDateTime
inputDate(dateTimeStr, lowerStr, timeMatched, current) ==
    IF includes(lowerStr, W_tomorrow)
    THEN setTime(StartOfDay(current) + MinutesPerDay, timeMatched, 10)
    ELSE IF includes(lowerStr, W_next)
    THEN IF targetDay(lowerStr) # 0 - 1
         THEN setTime(StartOfDay(current)
                        + daysToAdd(targetDay(lowerStr), getDay(current)) * MinutesPerDay,
                      timeMatched, 10)
         ELSE NewDate(dateTimeStr)
    ELSE IF includes(lowerStr, W_today)
    THEN setTime(StartOfDay(current), timeMatched, getHours(current) + 2)
    ELSE NewDate(dateTimeStr)

\* the validity checks of validateDateTime
checkedDate(date, current) ==
    IF date = InvalidDate
    THEN [valid |-> FALSE, date |-> InvalidDate, formatted |-> NoText,
          message |-> "Please provide a valid date and time"]
    ELSE IF date <= current
    THEN [valid |-> FALSE, date |-> InvalidDate, formatted |-> NoText,
          message |-> "Please select a future date and time."]
    ELSE IF date > current + SixMonthsDays * MinutesPerDay
    THEN [valid |-> FALSE, date |-> InvalidDate, formatted |-> NoText,
          message |-> "Appointments can only be scheduled up to 6 months in advance."]
    ELSE [valid |-> TRUE, date |-> date, formatted |-> formatDate(date), message |-> ""]

validateDateTime(dateTimeStr, current) ==
    checkedDate(inputDate(dateTimeStr,
                          trim(toLowerCase(dateTimeStr)),
                          timeMatch(trim(toLowerCase(dateTimeStr))),
                          current),
                current)

(***************************************************************************)
(* The text functions above, tabulated once over the messages and clock    *)
(* values of the model                                                     *)
(***************************************************************************)
Clock == {Now0 + i * TickMinutes : i \in 0..MaxTicks}

trimmed == [m \in Messages |-> trim(m)]

lowerTrimmed == [m \in Messages |-> trim(toLowerCase(m))]

bookingIntent == [m \in Messages |-> detectBookingIntent(m)]

cancelIntent == [m \in Messages |-> detectCancelIntent(m)]

phoneValidation == [m \in Messages |-> validatePhone(m)]

dateValidation == [m \in Messages, t \in Clock |-> validateDateTime(trim(m), t)]

\* the booking draft; appointmentData = {} is the draft with every field undefined
EmptyData ==
    [ownerName |-> NoText, petName |-> NoText, phone |-> NoText,
     preferredDateTime |-> NoText, appointmentDate |-> InvalidDate, slotKey |-> InvalidDate]

\* the response object of processBookingResponse
Accepted(data) == [data |-> data, isValid |-> TRUE, errorMessage |-> ""]

Rejected(appointmentData, errorMessage) ==
    [data |-> appointmentData, isValid |-> FALSE, errorMessage |-> errorMessage]

\* case 'CONFIRMATION' once the input is long enough
dateTimeResponse(appointmentData, validation) ==
    IF ~validation.valid
    THEN Rejected(appointmentData, validation.message)
    ELSE Accepted([appointmentData EXCEPT !.preferredDateTime = validation.formatted,
                                         !.appointmentDate = validation.date])

\* case 'ASK_DATE_TIME'
phoneResponse(appointmentData, validation) ==
    IF ~validation.valid
    THEN Rejected(appointmentData, validation.message)
    ELSE Accepted([appointmentData EXCEPT !.phone = validation.cleaned])

\* the validation with a one-character owner name let through; C2 tells it
\* from the validation of the code
processBookingResponseAnyName(state, userMessage, appointmentData, current) ==
    CASE state = "ASK_PET_NAME" ->
           IF Len(trimmed[userMessage]) < 1
           THEN Rejected(appointmentData, "Please provide a valid name.")
           ELSE Accepted([appointmentData EXCEPT !.ownerName = trimmed[userMessage]])
      [] state = "ASK_PHONE" ->
           IF Len(trimmed[userMessage]) < 1
           THEN Rejected(appointmentData, "Please provide your pet's name.")
           ELSE Accepted([appointmentData EXCEPT !.petName = trimmed[userMessage]])
      [] state = "ASK_DATE_TIME" ->
           phoneResponse(appointmentData, phoneValidation[userMessage])
      [] state = "CONFIRMATION" ->
           IF Len(trimmed[userMessage]) < 3
           THEN Rejected(appointmentData, "Please provide a preferred date and time.")
           ELSE dateTimeResponse(appointmentData, dateValidation[userMessage, current])
      [] state = "COMPLETED" ->
           IF lowerTrimmed[userMessage] \in {W_yes, W_confirm, W_y} THEN Accepted(appointmentData)
           ELSE IF lowerTrimmed[userMessage] \in {W_no, W_cancel, W_n} THEN Accepted(EmptyData)
           ELSE Rejected(appointmentData, "Please type yes to confirm or no to start over.")
      [] OTHER -> Accepted(appointmentData)

processBookingResponse(state, userMessage, appointmentData, current) ==
    CASE state = "ASK_PET_NAME" ->
           IF Len(trimmed[userMessage]) < 2
           THEN Rejected(appointmentData, "Please provide a valid name.")
           ELSE Accepted([appointmentData EXCEPT !.ownerName = trimmed[userMessage]])
      [] state = "ASK_PHONE" ->
           IF Len(trimmed[userMessage]) < 1
           THEN Rejected(appointmentData, "Please provide your pet's name.")
           ELSE Accepted([appointmentData EXCEPT !.petName = trimmed[userMessage]])
      [] state = "ASK_DATE_TIME" ->
           phoneResponse(appointmentData, phoneValidation[userMessage])
      [] state = "CONFIRMATION" ->
           IF Len(trimmed[userMessage]) < 3
           THEN Rejected(appointmentData, "Please provide a preferred date and time.")
           ELSE dateTimeResponse(appointmentData, dateValidation[userMessage, current])
      [] state = "COMPLETED" ->
           IF lowerTrimmed[userMessage] \in {W_yes, W_confirm, W_y} THEN Accepted(appointmentData)
           ELSE IF lowerTrimmed[userMessage] \in {W_no, W_cancel, W_n} THEN Accepted(EmptyData)
           ELSE Rejected(appointmentData, "Please type yes to confirm or no to start over.")
      [] OTHER -> Accepted(appointmentData)
(***************************************************************************)
(* AppointmentSlotManager: pure parts.  bookedSlots is a function from the *)
(* slot keys present in the Map to their entries.                          *)
(***************************************************************************)
businessHours ==
    [Monday    |-> [closed |-> FALSE, open |-> 9 * 60,  close |-> 18 * 60, breaks |-> {<<12 * 60, 13 * 60>>}],
     Tuesday   |-> [closed |-> FALSE, open |-> 9 * 60,  close |-> 18 * 60, breaks |-> {<<12 * 60, 13 * 60>>}],
     Wednesday |-> [closed |-> FALSE, open |-> 9 * 60,  close |-> 18 * 60, breaks |-> {<<12 * 60, 13 * 60>>}],
     Thursday  |-> [closed |-> FALSE, open |-> 9 * 60,  close |-> 18 * 60, breaks |-> {<<12 * 60, 13 * 60>>}],
     Friday    |-> [closed |-> FALSE, open |-> 9 * 60,  close |-> 17 * 60, breaks |-> {<<12 * 60, 13 * 60>>}],
     Saturday  |-> [closed |-> FALSE, open |-> 10 * 60, close |-> 14 * 60, breaks |-> {}],
     Sunday    |-> [closed |-> TRUE,  open |-> 0,       close |-> 0,       breaks |-> {}]]

\* the day's hours are open at requestedMinutes (timeToMinutes of the time string)
openAt(hours, requestedMinutes) ==
    /\ ~hours.closed
    /\ ~(requestedMinutes < hours.open \/ requestedMinutes >= hours.close)
    /\ \A breakPeriod \in hours.breaks :
          ~(requestedMinutes >= breakPeriod[1] /\ requestedMinutes < breakPeriod[2])

\* isBusinessHour(getDayName(date), getTimeString(date)); the table is keyed
\* by the day names, which the code lower-cases on both sides
isBusinessHour(date) ==
    openAt(businessHours[getDayName(date)], getHours(date) * 60 + getMinutes(date))

getSlotKey(date) == date - getMinutes(date) + (getMinutes(date) \div 30) * 30

\* getSlotKey on a Date with its seconds and milliseconds; an instant counts
\* milliseconds here, and getSlotKey above is this function on whole minutes
MsPerMinute == 60000

setSeconds0(ms) == ms - ((ms \div 1000) % 60) * 1000

setMilliseconds0(ms) == ms - (ms % 1000)

setMinutesOfMs(ms, minutes) ==
    ms - getMinutes(ms \div MsPerMinute) * MsPerMinute + minutes * MsPerMinute

getSlotKeyMsKeepingSeconds(ms) ==
    setMilliseconds0(setMinutesOfMs(ms, (getMinutes(ms \div MsPerMinute) \div 30) * 30))

getSlotKeyMs(ms) ==
    setMilliseconds0(setSeconds0(
        setMinutesOfMs(ms, (getMinutes(ms \div MsPerMinute) \div 30) * 30)))

\* Map.set and Map.delete (the empty Map is << >>)
MapSet(slots, key, entry) ==
    [k \in DOMAIN slots \cup {key} |-> IF k = key THEN entry ELSE slots[k]]

MapDelete(slots, key) ==
    IF DOMAIN slots \subseteq {key}
    THEN << >>
    ELSE [k \in DOMAIN slots \ {key} |-> slots[k]]

\* isSlotBooked: the answer, and the Map after the lazy removal of an
\* expired reservation at that key
isSlotBooked(slots, slotKey, current) ==
    IF slotKey \notin DOMAIN slots
    THEN [booked |-> FALSE, slots |-> slots]
    ELSE IF slots[slotKey].type = "reserved" /\ slots[slotKey].expiresAt < current
    THEN [booked |-> FALSE, slots |-> MapDelete(slots, slotKey)]
    ELSE [booked |-> TRUE, slots |-> slots]

hasConflictWithBuffer(slots, date) ==
    LET checkStart == date - bufferTime
        checkEnd == date + slotDuration + bufferTime
    IN \E key \in DOMAIN slots :
          /\ slots[key].type \in {"confirmed", "reserved"}
          /\ checkStart < slots[key].date + slotDuration
          /\ checkEnd > slots[key].date

getDailyAppointmentCount(slots, date) ==
    LET dayStart == StartOfDay(date)
        dayEnd == StartOfDay(date) + MinutesPerDay - 1
    IN Cardinality({key \in DOMAIN slots :
                       slots[key].date >= dayStart /\ slots[key].date <= dayEnd})

\* checks 2 to 4 of checkAvailability, on the Map as isSlotBooked leaves it
bookingVerdict(booked, date) ==
    IF booked.booked
    THEN [available |-> FALSE, reason |-> "slot_taken", slots |-> booked.slots]
    ELSE IF hasConflictWithBuffer(booked.slots, date)
    THEN [available |-> FALSE, reason |-> "too_close_to_existing", slots |-> booked.slots]
    ELSE IF getDailyAppointmentCount(booked.slots, date) >= MaxDailyAppointments
    THEN [available |-> FALSE, reason |-> "day_fully_booked", slots |-> booked.slots]
    ELSE [available |-> TRUE, reason |-> "available", slots |-> booked.slots]

\* the four checks of checkAvailability, before any suggestion is computed:
\* the reason, and the Map as isSlotBooked leaves it
checkVerdict(slots, date, current) ==
    IF ~isBusinessHour(date)
    THEN [available |-> FALSE, reason |-> "outside_business_hours", slots |-> slots]
    ELSE bookingVerdict(isSlotBooked(slots, getSlotKey(date), current), date)

\* reserveSlot: the entry written at the bucket key, whatever is there
reserveSlot(slots, date, sessionId, current) ==
    MapSet(slots, getSlotKey(date),
           [type |-> "reserved", sessionId |-> sessionId,
            expiresAt |-> current + ReservationMinutes, date |-> date])

\* the setTimeout(releaseReservation, 5 min) that reserveSlot schedules
releaseTimer(date, sessionId, current) ==
    [slotKey |-> getSlotKey(date), sessionId |-> sessionId, due |-> current + ReservationMinutes]

\* confirmReservation without the owner test; C6 tells it from the code's
confirmReservationByAnyone(slots, slotKey, sessionId) ==
    IF slotKey \notin DOMAIN slots
    THEN [ok |-> FALSE, slots |-> slots]
    ELSE [ok |-> TRUE,
          slots |-> MapSet(slots, slotKey,
                           [type |-> "confirmed", sessionId |-> sessionId,
                            expiresAt |-> InvalidDate, date |-> slots[slotKey].date])]

\* confirmReservation refusing an entry that is already confirmed; C15 tells
\* it from the code's
confirmReservationOnce(slots, slotKey, sessionId) ==
    IF \/ slotKey \notin DOMAIN slots
       \/ slots[slotKey].sessionId # sessionId
       \/ slots[slotKey].type # "reserved"
    THEN [ok |-> FALSE, slots |-> slots]
    ELSE [ok |-> TRUE,
          slots |-> MapSet(slots, slotKey,
                           [type |-> "confirmed", sessionId |-> sessionId,
                            expiresAt |-> InvalidDate, date |-> slots[slotKey].date])]

\* confirmReservation: whether it returns (TRUE) or throws, and the Map after
confirmReservation(slots, slotKey, sessionId) ==
    IF slotKey \notin DOMAIN slots \/ slots[slotKey].sessionId # sessionId
    THEN [ok |-> FALSE, slots |-> slots]
    ELSE [ok |-> TRUE,
          slots |-> MapSet(slots, slotKey,
                           [type |-> "confirmed", sessionId |-> sessionId,
                            expiresAt |-> InvalidDate, date |-> slots[slotKey].date])]

\* releaseReservation without the type test; C16 tells it from the code's
releaseReservationOfAnyType(slots, slotKey, sessionId) ==
    IF slotKey \in DOMAIN slots /\ slots[slotKey].sessionId = sessionId
    THEN MapDelete(slots, slotKey)
    ELSE slots

releaseReservation(slots, slotKey, sessionId) ==
    IF /\ slotKey \in DOMAIN slots
       /\ slots[slotKey].type = "reserved"
       /\ slots[slotKey].sessionId = sessionId
    THEN MapDelete(slots, slotKey)
    ELSE slots

\* startCleanupInterval: the entries the hourly callback keeps
cleanedSlots(slots, current) ==
    IF \A key \in DOMAIN slots :
          \/ slots[key].date < current - MinutesPerDay
          \/ slots[key].type = "reserved" /\ slots[key].expiresAt < current
    THEN << >>
    ELSE [key \in {k \in DOMAIN slots :
                      /\ ~(slots[k].date < current - MinutesPerDay)
                      /\ ~(slots[k].type = "reserved" /\ slots[k].expiresAt < current)}
            |-> slots[key]]

searchOffsets ==
    <<30, 0 - 30, 60, 0 - 60, 90, 0 - 90, 120, 0 - 120,
      24 * 60, 0 - 24 * 60, 48 * 60, 0 - 48 * 60>>

\* an async function hands its caller a Promise of its result
Promise(v) == [promise |-> v]

\* availability.available: the property as read from whatever was returned
\* (undefined, hence falsy, on an object without it)
ReadAvailable(x) == IF "available" \in DOMAIN x THEN x.available ELSE FALSE

\* the loop a non-available verdict enters to compute suggestedSlots
suggestionFrame(reason, date) ==
    IF reason \in {"slot_taken", "too_close_to_existing"}
    THEN [fn |-> "getNearbyAvailableSlots", date |-> date, i |-> 0, found |-> 0]
    ELSE IF reason = "day_fully_booked"
    THEN [fn |-> "getNextAvailableSlots", date |-> setDateHours(date, 1, 9, 0), i |-> 0, found |-> 0]
    ELSE [fn |-> "getNextAvailableSlots", date |-> date, i |-> 0, found |-> 0]

\* the instant the next iteration of a frame's loop probes
probeDate(frame) ==
    IF frame.fn = "getNearbyAvailableSlots"
    THEN frame.date + searchOffsets[frame.i + 1]
    ELSE LET t == frame.date + 30
         IN IF getHours(t) >= 18 THEN setDateHours(t, 1, 9, 0) ELSE t

\* the loop condition of a frame
loopDone(frame) ==
    IF frame.fn = "getNearbyAvailableSlots"
    THEN frame.found >= SuggestionCount \/ frame.i >= Len(searchOffsets)
    ELSE ~(frame.found < SuggestionCount)

\* the frame after an iteration whose probe returned `availability`
afterProbe(frame, availability) ==
    LET found == IF ReadAvailable(availability) THEN frame.found + 1 ELSE frame.found
    IN IF frame.fn = "getNearbyAvailableSlots"
       THEN [frame EXCEPT !.i = frame.i + 1, !.found = found]
       ELSE [frame EXCEPT !.date = probeDate(frame), !.found = found, !.i = frame.i + 1]

(***************************************************************************)
(* CacheService: pure parts.  A tier (a Map) is the sequence of its        *)
(* entries in insertion order, which is the order Map iteration follows;   *)
(* each entry carries its key.  Cache time is counted in the unit of the   *)
(* clock (minutes).                                                        *)
(***************************************************************************)
\* capacities of the tiers, scaled down from the configured 100 and 500
l1MaxSize == 1
l2MaxSize == 1

\* config.ttl: one hour
configTtl == 60

\* promote moves an entry whose hits exceed this
PromoteHits == 5

RECURSIVE collapseSpaces(_)
\* String.replace(/\s+/g, ' ')
collapseSpaces(text) ==
    IF Len(text) < 2
    THEN text
    ELSE IF IsSpace(text[1]) /\ IsSpace(text[2])
    THEN collapseSpaces(Tail(text))
    ELSE <<text[1]>> \o collapseSpaces(Tail(text))

\* the hex digest, taken to be free of collisions
md5(text) == [md5 |-> text]

generateKey(input) == md5(collapseSpaces(trim(toLowerCase(input))))

\* Map.has, Map.get, Map.set and Map.delete on a tier
TierHas(tier, key) == \E i \in 1..Len(tier) : tier[i].key = key

TierGet(tier, key) == tier[CHOOSE i \in 1..Len(tier) : tier[i].key = key]

TierSet(tier, entry) ==
    IF TierHas(tier, entry.key)
    THEN [i \in 1..Len(tier) |-> IF tier[i].key = entry.key THEN entry ELSE tier[i]]
    ELSE Append(tier, entry)

KeyIsNot(key, entry) == entry.key # key

TierDelete(tier, key) ==
    LET Keep(entry) == KeyIsNot(key, entry) IN SelectSeq(tier, Keep)

\* isExpired expiring an entry at the age of its ttl already; C19 tells it
\* from the code's
isExpiredAtTtl(entry, current) == current - entry.timestamp >= entry.ttl

isExpired(entry, current) == current - entry.timestamp > entry.ttl

\* the entry as checkLayers leaves it
touched(entry, current) ==
    [entry EXCEPT !.hits = entry.hits + 1, !.lastAccessed = current]

\* checkLayers: the entry returned (found is FALSE for null), and the tiers
\* with the entry touched
checkLayers(tiers, key, current) ==
    IF TierHas(tiers.l1, key)
    THEN [found |-> TRUE,
          entry |-> touched(TierGet(tiers.l1, key), current),
          layers |-> [tiers EXCEPT !.l1 = TierSet(tiers.l1, touched(TierGet(tiers.l1, key), current))]]
    ELSE IF TierHas(tiers.l2, key)
    THEN [found |-> TRUE,
          entry |-> touched(TierGet(tiers.l2, key), current),
          layers |-> [tiers EXCEPT !.l2 = TierSet(tiers.l2, touched(TierGet(tiers.l2, key), current))]]
    ELSE [found |-> FALSE, entry |-> << >>, layers |-> tiers]

\* evictLRU picking the entry accessed last; C23 tells it from the code's
mruEntry(tier) ==
    tier[CHOOSE i \in 1..Len(tier) :
            \A j \in 1..Len(tier) : tier[i].lastAccessed >= tier[j].lastAccessed]

\* the entry the loop of evictLRU ends on: the first one in iteration order
\* among those accessed the longest ago
lruEntry(tier) ==
    tier[CHOOSE i \in 1..Len(tier) :
            /\ \A j \in 1..Len(tier) : tier[i].lastAccessed <= tier[j].lastAccessed
            /\ \A j \in 1..(i - 1) : tier[j].lastAccessed > tier[i].lastAccessed]

\* evictLRU('l2')
evictWarm(tiers) ==
    IF Len(tiers.l2) = 0
    THEN tiers
    ELSE [tiers EXCEPT !.l2 = TierDelete(tiers.l2, lruEntry(tiers.l2).key)]

\* evictLRU('l1'), with the eviction from l2 it may call
evictHot(tiers) ==
    IF Len(tiers.l1) = 0
    THEN tiers
    ELSE LET lru == lruEntry(tiers.l1)
             demoted == [tiers EXCEPT !.l2 = TierSet(tiers.l2, lru)]
             warm == IF Len(demoted.l2) > l2MaxSize THEN evictWarm(demoted) ELSE demoted
         IN [warm EXCEPT !.l1 = TierDelete(warm.l1, lru.key)]

evictLRU(tiers, layer) ==
    IF layer = "l1" THEN evictHot(tiers) ELSE evictWarm(tiers)

\* set and promote never evicting; C24 tells it from the code's
afterHotInsertKeepingAll(tiers) == tiers

\* the tiers once an entry has been put in l1 (the end of set and of promote)
afterHotInsert(tiers) ==
    IF Len(tiers.l1) > l1MaxSize THEN evictLRU(tiers, "l1") ELSE tiers

\* set(key, value, ttl)
set(tiers, key, value, ttl, current) ==
    afterHotInsert([tiers EXCEPT !.l1 =
        TierSet(tiers.l1, [key |-> key, value |-> value, timestamp |-> current,
                           ttl |-> ttl, hits |-> 0, lastAccessed |-> current])])

\* promote(key, entry)
promote(tiers, key, entry) ==
    IF entry.hits > PromoteHits /\ ~TierHas(tiers.l1, key)
    THEN afterHotInsert([tiers EXCEPT !.l1 = TierSet(tiers.l1, entry),
                                      !.l2 = TierDelete(tiers.l2, key)])
    ELSE tiers

NotExpiredAt(current, entry) == ~isExpired(entry, current)

\* cleanup: the tiers without their expired entries
cleanup(tiers, current) ==
    LET Keep(entry) == NotExpiredAt(current, entry)
    IN [l1 |-> SelectSeq(tiers.l1, Keep), l2 |-> SelectSeq(tiers.l2, Keep)]

\* options.ttl || this.config.ttl (an absent ttl and a ttl of 0 are both falsy)
effectiveTtl(optionsTtl) == IF optionsTtl = 0 THEN configTtl ELSE optionsTtl

\* the synchronous part of get, up to its return or to the call of the
\* generator: whether it returns the cached value, the value, the tiers, and
\* what the catch block will find in `cached`
lookup(tiers, cacheKey, current) ==
    LET chk == checkLayers(tiers, cacheKey, current)
    IN IF chk.found /\ ~isExpired(chk.entry, current)
       THEN [hit |-> TRUE, value |-> chk.entry.value,
             layers |-> promote(chk.layers, cacheKey, chk.entry),
             cached |-> [found |-> TRUE, value |-> chk.entry.value]]
       ELSE [hit |-> FALSE, value |-> "",
             layers |-> chk.layers,
             cached |-> IF chk.found
                        THEN [found |-> TRUE, value |-> chk.entry.value]
                        ELSE [found |-> FALSE, value |-> ""]]

\* how a call of get ends: the value returned or the error thrown, and the
\* line it logs
Returned(value) == [kind |-> "value", value |-> value, log |-> ""]

\* the catch block of get rethrowing whatever `cached` holds; C20 tells it
\* from the code's
rethrow(cached) == [kind |-> "error", value |-> "", log |-> ""]

\* the catch block of get
staleOrThrow(cached) ==
    IF cached.found
    THEN [kind |-> "value", value |-> cached.value,
          log |-> "Returning stale cache due to error"]
    ELSE [kind |-> "error", value |-> "", log |-> ""]


(***************************************************************************)
(* The snapshot cache.json.  The file is absent, holds text JSON.parse     *)
(* rejects, or holds a document whose members l1 and l2 are arrays of      *)
(* [key, entry] pairs, except the members listed in `malformed`, which are *)
(* something new Map() does not accept.  stats and timestamp are written   *)
(* but play no part in the tiers after a load.                             *)
(***************************************************************************)
NoFile == [kind |-> "missing", l1 |-> << >>, l2 |-> << >>, malformed |-> {}]

\* Array.from(map.entries())
entries(tier) == [i \in 1..Len(tier) |-> <<tier[i].key, tier[i]>>]

RECURSIVE newMap(_)
\* new Map(pairs): a later pair of a key replaces the value in place
newMap(pairs) ==
    IF pairs = << >>
    THEN << >>
    ELSE TierSet(newMap(SubSeq(pairs, 1, Len(pairs) - 1)),
                 [pairs[Len(pairs)][2] EXCEPT !.key = pairs[Len(pairs)][1]])

\* persistToDisk: the file written
persistToDisk(tiers) ==
    [kind |-> "json", l1 |-> entries(tiers.l1), l2 |-> entries(tiers.l2),
     malformed |-> {}]

\* the ways a snapshot written earlier can be damaged
damaged(file) ==
    { [file EXCEPT !.kind = "unparsable"],
      [file EXCEPT !.malformed = {"l1"}],
      [file EXCEPT !.malformed = {"l2"}] }

\* loadFromDisk: the tiers when it returns.  readFile, JSON.parse or
\* new Map throwing ends the try block where it stands: l1 is assigned
\* before l2 is built, and cleanup runs after both
loadFromDisk(tiers, file, current) ==
    IF file.kind # "json" \/ "l1" \in file.malformed
    THEN tiers
    ELSE IF "l2" \in file.malformed
    THEN [tiers EXCEPT !.l1 = newMap(file.l1)]
    ELSE cleanup([l1 |-> newMap(file.l1), l2 |-> newMap(file.l2)], current)

(***************************************************************************)
(* findSimilar: canned answers, category patterns, then fuzzy matching     *)
(* over the hot tier.                                                      *)
(***************************************************************************)
\* preloadedResponses, in the order of the Map
preloadedResponses ==
    << [key |-> <<"v","a","c","c","i","n","a","t","i","o","n"," ","s","c","h","e","d","u","l","e">>,
        response |-> "Puppies need vaccines at 6-8 weeks, 10-12 weeks, and 14-16 weeks..."],
       [key |-> <<"e","m","e","r","g","e","n","c","y"," ","s","i","g","n","s">>,
        response |-> "Seek immediate vet care for: difficulty breathing, seizures, unconsciousness..."],
       [key |-> <<"t","o","x","i","c"," ","f","o","o","d","s">>,
        response |-> "Never feed dogs: chocolate, grapes, onions, garlic, xylitol..."] >>

\* patterns: the alternatives of each regex (words, and pairs a.*b), and the
\* key looked up in the tiers
patterns ==
    << [words |-> {<<"v","a","c","c","i","n">>, <<"s","h","o","t">>, <<"i","m","m","u","n","i","z">>}, pairs |-> {}, key |-> "vaccination"],
       [words |-> {<<"e","m","e","r","g","e","n","c","y">>, <<"u","r","g","e","n","t">>, <<"a","s","a","p">>}, pairs |-> {}, key |-> "emergency"],
       [words |-> {<<"p","o","i","s","o","n">>, <<"t","o","x","i","c">>},
        pairs |-> {<<<<"d","a","n","g","e","r","o","u","s">>, <<"f","o","o","d">>>>}, key |-> "toxic"],
       [words |-> {<<"f","l","e","a">>, <<"t","i","c","k">>, <<"p","a","r","a","s","i","t","e">>}, pairs |-> {}, key |-> "parasites"],
       [words |-> {<<"s","p","a","y">>, <<"n","e","u","t","e","r">>, <<"f","i","x">>}, pairs |-> {}, key |-> "spay-neuter"] >>

\* a occurs in the text and b occurs after it
includesThen(text, a, b) ==
    \E i \in 1..Len(text) :
        /\ i + Len(a) - 1 <= Len(text)
        /\ SubSeq(text, i, i + Len(a) - 1) = a
        /\ includes(SubSeq(text, i + Len(a), Len(text)), b)

\* pattern.regex.test(text)
regexTest(pattern, text) ==
    \/ \E w \in pattern.words : includes(text, w)
    \/ \E pair \in pattern.pairs : includesThen(text, pair[1], pair[2])

\* a tier is keyed by digests; a pattern key is the word itself
patternKey(pattern) == [raw |-> pattern.key]

Min3(a, b, c) == IF a <= b /\ a <= c THEN a ELSE IF b <= c THEN b ELSE c

RECURSIVE matrixRow(_, _, _, _)
\* row i of the matrix of calculateSimilarity up to column j, from row i - 1:
\* ch is str2.charAt(i - 1); element j + 1 of a row is matrix[i][j]
matrixRow(prev, ch, str1, j) ==
    IF j = 0
    THEN <<prev[1] + 1>>
    ELSE LET left == matrixRow(prev, ch, str1, j - 1)
         IN Append(left,
                   IF ch = str1[j]
                   THEN prev[j]
                   ELSE Min3(prev[j] + 1, left[j] + 1, prev[j + 1] + 1))

RECURSIVE matrixRows(_, _, _)
\* row i of the matrix
matrixRows(str1, str2, i) ==
    IF i = 0
    THEN [j \in 1..(Len(str1) + 1) |-> j - 1]
    ELSE matrixRow(matrixRows(str1, str2, i - 1), str2[i], str1, Len(str1))

\* the Levenshtein distance matrix[len2][len1]
distance(str1, str2) == matrixRows(str1, str2, Len(str2))[Len(str1) + 1]

MaxOf(a, b) == IF a >= b THEN a ELSE b

\* calculateSimilarity(str1, str2) > threshold, for the threshold 0.8:
\* 1 - distance / maxLen > 4/5; an empty string has similarity 0
similarAbove(str1, str2) ==
    /\ Len(str1) # 0
    /\ Len(str2) # 0
    /\ 5 * distance(str1, str2) < MaxOf(Len(str1), Len(str2))

NotFound == [found |-> FALSE, value |-> ""]

\* entry.value?.question: the value has a truthy member question
HasQuestion(value) == "question" \in DOMAIN value /\ value.question # << >>

\* the entries of a pattern that matches: l1.get(key) || l2.get(key), unexpired
patternHits(tiers, normalized, current) ==
    SelectSeq([i \in 1..Len(patterns) |->
                 IF ~regexTest(patterns[i], normalized)
                 THEN NotFound
                 ELSE IF TierHas(tiers.l1, patternKey(patterns[i]))
                 THEN [found |-> ~isExpired(TierGet(tiers.l1, patternKey(patterns[i])), current),
                       value |-> TierGet(tiers.l1, patternKey(patterns[i])).value]
                 ELSE IF TierHas(tiers.l2, patternKey(patterns[i]))
                 THEN [found |-> ~isExpired(TierGet(tiers.l2, patternKey(patterns[i])), current),
                       value |-> TierGet(tiers.l2, patternKey(patterns[i])).value]
                 ELSE NotFound],
              LAMBDA hit : hit.found)

\* the hot entries the fuzzy loop accepts, in the order of the Map
fuzzyHits(tier, normalized) ==
    SelectSeq(tier, LAMBDA entry :
        /\ HasQuestion(entry.value)
        /\ similarAbove(normalized, toLowerCase(entry.value.question)))

\* return entry.value.response: undefined where the value has no such member
fuzzyAnswer(value) ==
    IF "response" \in DOMAIN value
    THEN [found |-> TRUE, value |-> value.response]
    ELSE NotFound

\* findSimilar(question): null, or what it returns
findSimilar(tiers, question, current) ==
    LET normalized == trim(toLowerCase(question))
        canned == SelectSeq(preloadedResponses,
                            LAMBDA r : includes(normalized, r.key))
    IN IF canned # << >>
       THEN [found |-> TRUE, value |-> canned[1].response]
       ELSE IF patternHits(tiers, normalized, current) # << >>
       THEN patternHits(tiers, normalized, current)[1]
       ELSE IF fuzzyHits(tiers.l1, normalized) # << >>
       THEN fuzzyAnswer(fuzzyHits(tiers.l1, normalized)[1].value)
       ELSE NotFound

(***************************************************************************)
(* The Q&A branch of handleMessage as a caller of the cache.               *)
(***************************************************************************)
\* { ttl: 3600000 }: one hour
AnswerTtl == 60

\* the ObjectIds a message subdocument can carry
ObjectIds == <<"1", "2", "3", "4">>

\* JSON.stringify({ message, history, context }) for the first question of a
\* session: the history is the user turn just pushed, a subdocument that
\* carries its own _id; the punctuation is abridged
stringify(message, id) == <<"{">> \o message \o <<"[">> \o message \o <<"#", id, "]", "}">>

\* generateKey(input) for an input that is not a string
requestKey(message, id) == md5(stringify(message, id))

\* what GeminiService.generateResponse resolves to: the text of the model, or
\* the apology of its catch block
Apology == "I apologize, but I'm having trouble processing your request right now."

generateResponse(text) ==
    IF text = "fails"
    THEN [success |-> FALSE, message |-> Apology]
    ELSE [success |-> TRUE, message |-> text]
(***************************************************************************)
(* RateLimiter (middleware/rateLimiter.js).  The limiter's clock counts    *)
(* ticks of 30 seconds, so that the refill interval of 60000 ms is two   *)
(* ticks; capacities and block durations are scaled down with it.  A       *)
(* bucket's tokens are a fraction in the code (timePassed / interval *     *)
(* refillRate): the model holds them as a whole number of 1/interval       *)
(* tokens, which keeps the arithmetic exact.                               *)
(***************************************************************************)
MaxLimiterTicks == 4

Interval == 2

SuspiciousBlock == 4    \* blockIP(ip, 3600000)

OneHour == 60 * Interval

pApiChat == <<"/", "a", "p", "i", "/", "c", "h", "a", "t">>
pApiAppointments == <<"/", "a", "p", "i", "/", "a", "p", "p", "o", "i", "n", "t", "m", "e", "n", "t", "s">>
pApiHealth == <<"/", "a", "p", "i", "/", "h", "e", "a", "l", "t", "h">>
pHealth == <<"/", "h", "e", "a", "l", "t", "h">>
pDefault == <<"d", "e", "f", "a", "u", "l", "t">>   \* the key 'default'

NoVerdict == [path |-> << >>, status |-> 0]

\* this.limits, in the order of its keys
limitKeys == <<pApiChat, pApiAppointments, pApiHealth>>

limits ==
    (pApiChat :> [tokens |-> 3, refillRate |-> 3, interval |-> Interval, blockDuration |-> 2])
    @@ (pApiAppointments :> [tokens |-> 2, refillRate |-> 2, interval |-> Interval, blockDuration |-> 3])
    @@ (pApiHealth :> [tokens |-> 4, refillRate |-> 4, interval |-> Interval, blockDuration |-> 1])
    @@ (pDefault :> [tokens |-> 2, refillRate |-> 2, interval |-> Interval, blockDuration |-> 2])

IPs == {"ip1"}

\* the paths requests are sent to: the two rate-limited APIs and app.get('/health')
Paths == {pApiChat, pApiAppointments, pHealth}

startsWith(text, prefix) ==
    Len(prefix) <= Len(text) /\ SubSeq(text, 1, Len(prefix)) = prefix

\* getEndpointKey: the first configured endpoint the path starts with
getEndpointKey(path) ==
    LET matching == {i \in DOMAIN limitKeys : startsWith(path, limitKeys[i])}
    IN  IF matching = {}
        THEN pDefault
        ELSE limitKeys[CHOOSE i \in matching : \A j \in matching : i <= j]

MinOf(a, b) == IF a <= b THEN a ELSE b

\* consumeToken: creates the bucket, refills it for the time passed, takes a token
consumeToken(bkts, ip, endpoint, current) ==
    LET limit == limits[endpoint]
        key == <<ip, endpoint>>
        bucket == IF key \in DOMAIN bkts
                  THEN bkts[key]
                  ELSE [tokens |-> limit.tokens * limit.interval, lastRefill |-> current]
        timePassed == current - bucket.lastRefill
        refilled == MinOf(limit.tokens * limit.interval,
                          bucket.tokens + timePassed * limit.refillRate)
        allowed == refilled >= limit.interval
    IN  [allowed |-> allowed,
         buckets |-> MapSet(bkts, key,
                            [tokens |-> IF allowed THEN refilled - limit.interval ELSE refilled,
                             lastRefill |-> current])]

\* isBlocked: an expired block is deleted on the way
isBlocked(blocks, ip, current) ==
    IF ip \notin DOMAIN blocks
    THEN [blocked |-> FALSE, blockedIPs |-> blocks]
    ELSE IF current > blocks[ip]
    THEN [blocked |-> FALSE, blockedIPs |-> MapDelete(blocks, ip)]
    ELSE [blocked |-> TRUE, blockedIPs |-> blocks]

\* blockIP: the entry and the timer that deletes it
blockIP(blocks, pending, ip, duration, current) ==
    [blockedIPs |-> MapSet(blocks, ip, current + duration),
     unblockTimers |-> pending \cup {[ip |-> ip, at |-> current + duration]}]

\* the sweep of startCleanup
limiterCleanup(bkts, blocks, current) ==
    [buckets |-> LET kept == {k \in DOMAIN bkts : ~(bkts[k].lastRefill < current - OneHour)}
                 IN  IF kept = {} THEN << >> ELSE [k \in kept |-> bkts[k]],
     blockedIPs |-> LET kept == {i \in DOMAIN blocks : ~(current > blocks[i])}
                    IN  IF kept = {} THEN << >> ELSE [i \in kept |-> blocks[i]]]


(***************************************************************************)
(* State                                                                   *)
(***************************************************************************)
VARIABLES
    conversations,  \* Conversation collection: session -> persisted document
    appointments,   \* Appointment collection, in order of creation
    bookedSlots,    \* AppointmentSlotManager.bookedSlots
    timers,         \* pending setTimeout callbacks of reserveSlot
    now,            \* Date.now()
    pc,             \* session -> where its request in flight stands
    local,          \* session -> locals of its request in flight
    callStack,      \* suggestion loops running synchronously, innermost last
    response,       \* session -> the last HTTP response it received
    slotCalls,      \* slot key -> direct calls of the slot manager made on it
    layers,         \* CacheService.layers: the hot tier l1 and the warm tier l2
    inflight,       \* calls of CacheService.get waiting for their generator
    cacheResult,    \* how the latest call of CacheService.get ended
    created,        \* the entry the latest get of the watched question created
    warmHits,       \* accesses to the watched entry since it arrived in the warm tier
    disk,           \* the snapshot file cache.json
    loading,        \* CacheService.initialize has not yet finished loadFromDisk
    requests,       \* requests of one session that overlap: what each has loaded
    buckets,        \* RateLimiter.buckets
    blockedIPs,     \* RateLimiter.blockedIPs
    unblockTimers,  \* pending setTimeout callbacks of blockIP
    admitted,       \* ip, path -> instants of the last interval at which a request was let through
    clock,          \* Date.now() as the rate limiter reads it
    verdict,        \* how the rate limiter answered the latest request
    slotKeys        \* the Dates getSlotKey was called with, each with the key returned

cacheVars == <<layers, inflight, cacheResult, created, warmHits, disk, loading>>

limiterVars == <<buckets, blockedIPs, unblockTimers, admitted, clock, verdict>>

vars == <<conversations, appointments, bookedSlots, timers, now, pc, local,
          callStack, response, slotCalls,
         layers, inflight, cacheResult, created, warmHits, disk, loading, requests,
         buckets, blockedIPs, unblockTimers, admitted, clock, verdict, slotKeys>>

States == {"NONE", "ASK_PET_NAME", "ASK_PHONE", "ASK_DATE_TIME", "CONFIRMATION", "COMPLETED"}

\* conversationSchema.appointmentData is a strict nested path: assigning an
\* object keeps the declared fields only, and only those are saved
SchemaCast(data) ==
    [data EXCEPT !.appointmentDate = InvalidDate, !.slotKey = InvalidDate]

NoConversation ==
    [exists |-> FALSE, appointmentState |-> "NONE", appointmentData |-> EmptyData]

NoLocal ==
    [appointmentData |-> EmptyData, appointmentDate |-> InvalidDate,
     availability |-> [available |-> FALSE, reason |-> "none"]]

\* the requests of the overlapping session that are followed through their
\* awaits, and the session
Overlapping == {"r1", "r2"}

OverlapSession == "s2"

NoRequest == [stage |-> "idle", message |-> << >>, doc |-> NoConversation, seen |-> 0]

NoResponse == [status |-> 0, message |-> "", appointmentState |-> "-"]

Reply(message, appointmentState) ==
    [status |-> 200, message |-> message, appointmentState |-> appointmentState]

ErrorReply(status, message) ==
    [status |-> status, message |-> message, appointmentState |-> "-"]

\* conversation.save()
Saved(appointmentState, appointmentData) ==
    [exists |-> TRUE, appointmentState |-> appointmentState,
     appointmentData |-> SchemaCast(appointmentData)]

\* the instants the slot manager is called with directly, and their keys
Tuesday0900 == MinutesPerDay + 9 * 60

CallInstants == {Tuesday0900, Tuesday0900 + 30}

CallKeys == {getSlotKey(d) : d \in CallInstants}

NoCalls == [reservers |-> << >>, confirmed |-> {}, failed |-> {}]

\* the questions the cache is asked
qA == <<" ","A"," ">>
qB == <<"b"," "," ","c">>
qC == <<"c">>

ShortTtl == 1

\* the calls of get that are made: the question and the ttl option (0 stands
\* for a call without the option)
CacheCalls == {<<qA, ShortTtl>>, <<qB, 0>>}

\* the calls made where the tiers are to overflow: one more question
EvictionCalls == CacheCalls \cup {<<qC, ShortTtl>>}

\* what a generator may resolve to
GenValues == {"v1", "v2"}

NoResult == [kind |-> "none", value |-> "", log |-> ""]

\* the question whose entry `created` follows
Watched == generateKey(qA)

NotCreated == [found |-> FALSE, value |-> "", timestamp |-> InvalidDate, ttl |-> 0]

Init ==
    /\ conversations = [s \in Sessions |-> NoConversation]
    /\ appointments = << >>
    /\ bookedSlots = << >>
    /\ timers = {}
    /\ now = Now0
    /\ pc = [s \in Sessions |-> "idle"]
    /\ local = [s \in Sessions |-> NoLocal]
    /\ callStack = << >>
    /\ response = [s \in Sessions |-> NoResponse]
    /\ slotCalls = [k \in CallKeys |-> NoCalls]
    /\ layers = [l1 |-> << >>, l2 |-> << >>]
    /\ inflight = << >>
    /\ cacheResult = NoResult
    /\ created = NotCreated
    /\ warmHits = 0
    /\ disk = NoFile
    /\ loading = TRUE
    /\ requests = [r \in Overlapping |-> NoRequest]
    /\ buckets = << >>
    /\ blockedIPs = << >>
    /\ unblockTimers = {}
    /\ admitted = << >>
    /\ clock = 0
    /\ verdict = NoVerdict
    /\ slotKeys = {}

(***************************************************************************)
(* What users type.  The name questions are answered with one name, with a *)
(* text too short to be a name, with an empty message or with a            *)
(* cancellation; the date question with any message but the phone number   *)
(* (digits that new Date may or may not read as a date); every other state *)
(* receives every message.  A scripted session sends the one message that  *)
(* takes the booking forward.                                              *)
(***************************************************************************)
Answers(state) ==
    CASE state = "ASK_PET_NAME" -> {mJane, mY, mBlank, mCancel, mStop}
      [] state = "ASK_PHONE" -> {mRex, mBlank, mCancel, mStop}
      [] state = "CONFIRMATION" -> Messages \ {mPhone}
      [] OTHER -> Messages

Script(state) ==
    CASE state = "NONE" -> {mBook}
      [] state = "ASK_PET_NAME" -> {mJane}
      [] state = "ASK_PHONE" -> {mRex}
      [] state = "ASK_DATE_TIME" -> {mPhone}
      [] state = "CONFIRMATION" -> {mDate915}
      [] state = "COMPLETED" -> {mYes}

inputs ==
    [s \in Sessions, state \in States |->
        IF s \in Scripted THEN Script(state) ELSE Answers(state)]

\* the synchronous suggestion loops never yield: nothing else runs meanwhile
Blocked == callStack # << >>

\* a release timer that is due runs before any request that arrives later
\* (the clock moves in steps longer than the hold)
TimersDue == \E t \in timers : t.due <= now

Ready(s, m) ==
    /\ pc[s] = "idle"
    /\ ~Blocked
    /\ ~TimersDue
    /\ m \in inputs[s, conversations[s].appointmentState]

NonEmpty(m) == Len(trimmed[m]) # 0

\* the yes test as a substring test; C10 tells it from the exact comparison
IsYesBySubstring(m) == \E w \in {W_yes, W_confirm, W_y} : includes(lowerTrimmed[m], w)

IsYes(m) == lowerTrimmed[m] \in {W_yes, W_confirm, W_y}

IsNo(m) == lowerTrimmed[m] \in {W_no, W_cancel, W_n}

InFlow(state) == state # "NONE" /\ state # "COMPLETED"

(***************************************************************************)
(* ChatController.handleMessage, one action per path through a turn        *)
(***************************************************************************)
\* lines 16-20: empty message
BadRequest(s, m) ==
    /\ Ready(s, m)
    /\ ~NonEmpty(m)
    /\ response' = [response EXCEPT ![s] = ErrorReply(400, "Message is required")]
    /\ UNCHANGED <<limiterVars, slotKeys, cacheVars, requests, conversations, appointments, bookedSlots, timers, now, pc,
                   local, callStack, slotCalls>>

\* lines 47-67: cancellation in the middle of the flow
CancelBooking(s, m) ==
    /\ InFlow(conversations[s].appointmentState)
    /\ Ready(s, m)
    /\ NonEmpty(m)
    /\ cancelIntent[m]
    /\ conversations' = [conversations EXCEPT ![s] = Saved("NONE", EmptyData)]
    /\ response' = [response EXCEPT ![s] = Reply("Appointment booking cancelled.", "NONE")]
    /\ UNCHANGED <<limiterVars, slotKeys, cacheVars, requests, appointments, bookedSlots, timers, now, pc, local, callStack,
                   slotCalls>>

\* appointmentSchema: the required paths
AppointmentValid(data) ==
    /\ data.ownerName # NoText
    /\ data.petName # NoText
    /\ data.phone # NoText
    /\ data.preferredDateTime # NoText

NewAppointment(s, data) ==
    [sessionId |-> s, ownerName |-> data.ownerName, petName |-> data.petName,
     phone |-> data.phone, preferredDateTime |-> data.preferredDateTime,
     status |-> "pending"]

\* lines 82-87: confirmReservation is called when the loaded draft has a slotKey
confirmDraft(slots, data, s) ==
    IF data.slotKey # InvalidDate
    THEN confirmReservation(slots, data.slotKey, s)
    ELSE [ok |-> TRUE, slots |-> slots]

\* lines 78-102: yes at the confirmation step
ConfirmYes(s, m) ==
    /\ conversations[s].appointmentState = "COMPLETED"
    /\ Ready(s, m)
    /\ NonEmpty(m)
    /\ IsYes(m)
    /\ Len(appointments) < MaxAppointments
    /\ \E data \in {conversations[s].appointmentData} :
       \E c \in {confirmDraft(bookedSlots, data, s)} :
          IF ~c.ok
          THEN /\ response' = [response EXCEPT ![s] = ErrorReply(500, "An error occurred")]
               /\ UNCHANGED <<conversations, appointments, bookedSlots>>
          ELSE IF ~AppointmentValid(data)
          THEN /\ bookedSlots' = c.slots
               /\ response' = [response EXCEPT ![s] = ErrorReply(500, "An error occurred")]
               /\ UNCHANGED <<conversations, appointments>>
          ELSE /\ bookedSlots' = c.slots
               /\ appointments' = Append(appointments, NewAppointment(s, data))
               /\ conversations' = [conversations EXCEPT ![s] = Saved("NONE", data)]
               /\ response' = [response EXCEPT ![s] =
                                 Reply("Your appointment has been successfully booked!", "COMPLETED")]
    /\ UNCHANGED <<limiterVars, slotKeys, cacheVars, requests, timers, now, pc, local, callStack, slotCalls>>

\* lines 103-106: no at the confirmation step
ConfirmNo(s, m) ==
    /\ conversations[s].appointmentState = "COMPLETED"
    /\ Ready(s, m)
    /\ NonEmpty(m)
    /\ ~IsYes(m)
    /\ IsNo(m)
    /\ conversations' = [conversations EXCEPT ![s] = Saved("NONE", EmptyData)]
    /\ response' = [response EXCEPT ![s] = Reply("Appointment booking cancelled.", "COMPLETED")]
    /\ UNCHANGED <<limiterVars, slotKeys, cacheVars, requests, appointments, bookedSlots, timers, now, pc, local, callStack,
                   slotCalls>>

\* lines 107-109: anything else at the confirmation step
ConfirmReprompt(s, m) ==
    /\ conversations[s].appointmentState = "COMPLETED"
    /\ Ready(s, m)
    /\ NonEmpty(m)
    /\ ~IsYes(m)
    /\ ~IsNo(m)
    /\ conversations' = [conversations EXCEPT ![s] =
                           Saved("COMPLETED", conversations[s].appointmentData)]
    /\ response' = [response EXCEPT ![s] =
                      Reply("Please type yes to confirm or no to start over.", "COMPLETED")]
    /\ UNCHANGED <<limiterVars, slotKeys, cacheVars, requests, appointments, bookedSlots, timers, now, pc, local, callStack,
                   slotCalls>>

\* lines 112-120: the answer fails the field rule of the state
InvalidAnswer(s, m) ==
    /\ InFlow(conversations[s].appointmentState)
    /\ Ready(s, m)
    /\ NonEmpty(m)
    /\ ~cancelIntent[m]
    /\ \E conv \in {conversations[s]} :
       \E bookingResponse \in
             {processBookingResponse(conv.appointmentState, m, conv.appointmentData, now)} :
          /\ ~bookingResponse.isValid
          /\ conversations' = [conversations EXCEPT ![s] =
                                 Saved(conv.appointmentState, conv.appointmentData)]
          /\ response' = [response EXCEPT ![s] =
                            Reply(bookingResponse.errorMessage, conv.appointmentState)]
    /\ UNCHANGED <<limiterVars, slotKeys, cacheVars, requests, appointments, bookedSlots, timers, now, pc, local, callStack,
                   slotCalls>>

\* lines 121-124, 157-163: a valid answer that needs no availability check
AcceptAnswer(s, m) ==
    /\ InFlow(conversations[s].appointmentState)
    /\ Ready(s, m)
    /\ NonEmpty(m)
    /\ ~cancelIntent[m]
    /\ \E conv \in {conversations[s]} :
       \E bookingResponse \in
             {processBookingResponse(conv.appointmentState, m, conv.appointmentData, now)} :
       \E nextQuestion \in {getNextQuestion(conv.appointmentState)} :
          /\ bookingResponse.isValid
          /\ ~(conv.appointmentState = "CONFIRMATION"
                 /\ bookingResponse.data.appointmentDate # InvalidDate)
          /\ conversations' = [conversations EXCEPT ![s] =
                                 Saved(nextQuestion.nextState, bookingResponse.data)]
          /\ response' = [response EXCEPT ![s] =
                            Reply(nextQuestion.message, nextQuestion.nextState)]
    /\ UNCHANGED <<limiterVars, slotKeys, cacheVars, requests, appointments, bookedSlots, timers, now, pc, local, callStack,
                   slotCalls>>

\* lines 121-128: a valid date/time; checkAvailability runs its four checks
\* and either returns its Promise at once or starts computing suggestions
DateTimeCheck(s, m) ==
    /\ conversations[s].appointmentState = "CONFIRMATION"
    /\ Ready(s, m)
    /\ NonEmpty(m)
    /\ ~cancelIntent[m]
    /\ \E conv \in {conversations[s]} :
       \E bookingResponse \in
             {processBookingResponse(conv.appointmentState, m, conv.appointmentData, now)} :
          /\ bookingResponse.isValid
          /\ bookingResponse.data.appointmentDate # InvalidDate
          /\ \E v \in {checkVerdict(bookedSlots, bookingResponse.data.appointmentDate, now)} :
                /\ bookedSlots' = v.slots
                /\ local' = [local EXCEPT ![s] =
                               [appointmentData |-> SchemaCast(bookingResponse.data),
                                appointmentDate |-> bookingResponse.data.appointmentDate,
                                availability |-> [available |-> v.available,
                                                  reason |-> v.reason]]]
                /\ IF v.available
                   THEN /\ pc' = [pc EXCEPT ![s] = "awaitAvailability"]
                        /\ UNCHANGED callStack
                   ELSE /\ pc' = [pc EXCEPT ![s] = "suggesting"]
                        /\ callStack' = <<suggestionFrame(v.reason,
                                              bookingResponse.data.appointmentDate)>>
    /\ UNCHANGED <<limiterVars, slotKeys, cacheVars, requests, conversations, appointments, timers, now, response,
                   slotCalls>>

\* lines 130-156 and 212-226: the turn resumes with the availability, on the
\* document it loaded (DateTimeCheck: in state CONFIRMATION)
AfterAvailability(s) ==
    /\ pc[s] = "awaitAvailability"
    /\ ~Blocked
    /\ ~TimersDue
    /\ \E conv \in {[conversations[s] EXCEPT !.appointmentState = "CONFIRMATION"]} :
       \E l \in {local[s]} :
       \E nextQuestion \in {getNextQuestion(conv.appointmentState)} :
          IF ~l.availability.available
          THEN /\ conversations' = [conversations EXCEPT ![s] =
                                      Saved(conv.appointmentState, l.appointmentData)]
               /\ response' = [response EXCEPT ![s] =
                                 Reply(l.availability.reason, conv.appointmentState)]
               /\ UNCHANGED <<bookedSlots, timers>>
          ELSE /\ bookedSlots' = reserveSlot(bookedSlots, l.appointmentDate, s, now)
               /\ timers' = timers \cup {releaseTimer(l.appointmentDate, s, now)}
               /\ conversations' = [conversations EXCEPT ![s] =
                     Saved(nextQuestion.nextState,
                           [l.appointmentData EXCEPT !.slotKey = getSlotKey(l.appointmentDate)])]
               /\ response' = [response EXCEPT ![s] =
                                 Reply(nextQuestion.message, nextQuestion.nextState)]
    /\ pc' = [pc EXCEPT ![s] = "idle"]
    /\ local' = [local EXCEPT ![s] = NoLocal]
    /\ UNCHANGED <<limiterVars, slotKeys, cacheVars, requests, appointments, now, callStack, slotCalls>>

\* lines 169-176: booking intent outside the flow
StartBooking(s, m) ==
    /\ conversations[s].appointmentState = "NONE"
    /\ Ready(s, m)
    /\ NonEmpty(m)
    /\ bookingIntent[m]
    /\ \E firstQuestion \in {getNextQuestion("ASK_OWNER_NAME")} :
          /\ conversations' = [conversations EXCEPT ![s] =
                                 Saved(firstQuestion.nextState, conversations[s].appointmentData)]
          /\ response' = [response EXCEPT ![s] =
                            Reply(firstQuestion.message, firstQuestion.nextState)]
    /\ UNCHANGED <<limiterVars, slotKeys, cacheVars, requests, appointments, bookedSlots, timers, now, pc, local, callStack,
                   slotCalls>>

\* the keys in memory
KeysInUse ==
    {layers.l1[i].key : i \in 1..Len(layers.l1)}
        \cup {layers.l2[i].key : i \in 1..Len(layers.l2)}
        \cup {inflight[i].key : i \in 1..Len(inflight)}

\* the _id of the subdocument pushed for the message: one no key in memory holds
FreshId(message) ==
    ObjectIds[CHOOSE n \in 1..Len(ObjectIds) :
                 /\ requestKey(message, ObjectIds[n]) \notin KeysInUse
                 /\ \A k \in 1..(n - 1) : requestKey(message, ObjectIds[k]) \in KeysInUse]

\* AnalyticsService.trackSession(sessionId, event, data): whether the call
\* returns.  The case 'message' reads this.sessionDuration, which nothing
\* defines (the Map is this.metrics.sessionDuration), and throws a TypeError
trackSessionReturns(event) == event # "message"

\* what generateResponse is to resolve to in a Q&A turn: a text of the
\* model, or its failure
Generations == {"answer", "fails"}

\* lines 182-209: findSimilar, and on a miss get with generateResponse as the
\* generator: the tiers afterwards and botResponse
answerTurn(tiers, message, key, text, current) ==
    IF findSimilar(tiers, message, current).found
    THEN [layers |-> tiers, botResponse |-> findSimilar(tiers, message, current).value]
    ELSE IF lookup(tiers, key, current).hit
    THEN [layers |-> lookup(tiers, key, current).layers,
          botResponse |-> lookup(tiers, key, current).value.message]
    ELSE [layers |-> set(lookup(tiers, key, current).layers, key, generateResponse(text),
                         effectiveTtl(AnswerTtl), current),
          botResponse |-> generateResponse(text).message]

\* lines 177-233: a question for the assistant, asked while generateResponse
\* would resolve to `text`.  trackSession is called first; what it throws is
\* caught by the catch of handleMessage
AskQuestion(s, m, text) ==
    /\ conversations[s].appointmentState = "NONE"
    /\ Ready(s, m)
    /\ NonEmpty(m)
    /\ ~bookingIntent[m]
    /\ IF ~trackSessionReturns("message")
       THEN /\ response' = [response EXCEPT ![s] = ErrorReply(500, "An error occurred")]
            /\ UNCHANGED <<conversations, layers>>
       ELSE \E turn \in {answerTurn(layers, m, requestKey(m, FreshId(m)), text, now)} :
          /\ layers' = turn.layers
          /\ conversations' = [conversations EXCEPT ![s] =
                                 Saved("NONE", conversations[s].appointmentData)]
          /\ response' = [response EXCEPT ![s] = Reply(turn.botResponse, "NONE")]
    /\ UNCHANGED <<limiterVars, slotKeys, appointments, bookedSlots, timers, now, pc, local, callStack,
                   slotCalls, inflight, cacheResult, created, warmHits, disk, loading,
                   requests>>

(***************************************************************************)
(* The suggestion loops of checkAvailability (getNextAvailableSlots,       *)
(* getNearbyAvailableSlots), one iteration per step.  Each probe calls     *)
(* checkAvailability and reads .available from the Promise it returns.     *)
(* Frames deeper than MaxDepth and iterations beyond MaxProbes are not     *)
(* followed: the computation then stays where it is.                       *)
(***************************************************************************)
\* the call stack after one more iteration of its innermost loop
iterate(stack, top, v) ==
    IF top.fn = "getNextAvailableSlots" /\ top.i >= MaxProbes
    THEN stack
    ELSE IF v.available
    THEN Append(SubSeq(stack, 1, Len(stack) - 1), afterProbe(top, Promise(v)))
    ELSE IF Len(stack) >= MaxDepth
    THEN stack
    ELSE \* the probe's own checkAvailability computes its suggestions first
         SubSeq(stack, 1, Len(stack) - 1)
            \o <<afterProbe(top, Promise(v)), suggestionFrame(v.reason, probeDate(top))>>

SuggestStep(s) ==
    /\ pc[s] = "suggesting"
    /\ callStack # << >>
    /\ \E top \in {callStack[Len(callStack)]} :
          IF loopDone(top)
          THEN \* return the slots collected to the caller
               /\ callStack' = SubSeq(callStack, 1, Len(callStack) - 1)
               /\ UNCHANGED bookedSlots
               /\ pc' = [pc EXCEPT ![s] =
                           IF Len(callStack) = 1 THEN "awaitAvailability" ELSE "suggesting"]
          ELSE \E v \in {checkVerdict(bookedSlots, probeDate(top), now)} :
               /\ callStack' = iterate(callStack, top, v)
               /\ bookedSlots' = IF callStack' = callStack THEN bookedSlots ELSE v.slots
               /\ UNCHANGED pc
    /\ UNCHANGED <<limiterVars, slotKeys, cacheVars, requests, conversations, appointments, timers, now, local, response,
                   slotCalls>>

(***************************************************************************)
(* Time, the release timers of reserveSlot and the hourly cleanup          *)
(***************************************************************************)
\* time passes once every callback that is due has run
Tick ==
    /\ ~Blocked
    /\ now < Now0 + MaxTicks * TickMinutes
    /\ \A t \in timers : t.due > now
    /\ now' = now + TickMinutes
    /\ UNCHANGED <<limiterVars, slotKeys, cacheVars, requests, conversations, appointments, bookedSlots, timers, pc, local,
                   callStack, response, slotCalls>>

\* the callback scheduled by reserveSlot runs, at its due time or later
TimerFire(t) ==
    /\ ~Blocked
    /\ t \in timers
    /\ t.due <= now
    /\ bookedSlots' = releaseReservation(bookedSlots, t.slotKey, t.sessionId)
    /\ timers' = timers \ {t}
    /\ UNCHANGED <<limiterVars, slotKeys, cacheVars, requests, conversations, appointments, now, pc, local, callStack,
                   response, slotCalls>>

\* startCleanupInterval: the hourly callback
Cleanup ==
    /\ ~Blocked
    /\ bookedSlots' = cleanedSlots(bookedSlots, now)
    /\ UNCHANGED <<limiterVars, slotKeys, cacheVars, requests, conversations, appointments, timers, now, pc, local, callStack,
                   response, slotCalls>>

HandleMessage(s, m) ==
    \/ BadRequest(s, m)
    \/ CancelBooking(s, m)
    \/ ConfirmYes(s, m)
    \/ ConfirmNo(s, m)
    \/ ConfirmReprompt(s, m)
    \/ InvalidAnswer(s, m)
    \/ AcceptAnswer(s, m)
    \/ DateTimeCheck(s, m)
    \/ StartBooking(s, m)
    \/ \E text \in Generations : AskQuestion(s, m, text)

Next ==
    \/ \E s \in Sessions, m \in Messages : HandleMessage(s, m)
    \/ \E s \in Sessions : AfterAvailability(s)
    \/ \E s \in Sessions : SuggestStep(s)
    \/ Tick
    \/ \E t \in timers : TimerFire(t)
    \/ Cleanup

Spec == Init /\ [][Next]_vars

\* the event loop keeps running whatever is runnable
LiveSpec == Spec /\ WF_vars(Next)

(***************************************************************************)
(* The slot manager called directly (reserveSlot, confirmReservation,      *)
(* releaseReservation), by any caller in any order.  slotCalls records,    *)
(* per slot key, the sessions that called reserveSlot and, since the       *)
(* latest of those calls, the sessions whose confirmReservation returned   *)
(* and those for which it threw.                                           *)
(***************************************************************************)
ReserveCall(s, d) ==
    /\ Len(slotCalls[getSlotKey(d)].reservers) < MaxReserveCalls
    /\ bookedSlots' = reserveSlot(bookedSlots, d, s, now)
    /\ timers' = timers \cup {releaseTimer(d, s, now)}
    /\ slotCalls' = [slotCalls EXCEPT ![getSlotKey(d)] =
                       [reservers |-> Append(@.reservers, s), confirmed |-> {}, failed |-> {}]]
    /\ UNCHANGED <<limiterVars, slotKeys, cacheVars, requests, conversations, appointments, now, pc, local, callStack,
                   response>>

ConfirmCall(s, k) ==
    /\ \E c \in {confirmReservation(bookedSlots, k, s)} :
          /\ bookedSlots' = c.slots
          /\ slotCalls' = [slotCalls EXCEPT ![k] =
                             IF c.ok
                             THEN [@ EXCEPT !.confirmed = @ \cup {s}]
                             ELSE [@ EXCEPT !.failed = @ \cup {s}]]
    /\ UNCHANGED <<limiterVars, slotKeys, cacheVars, requests, conversations, appointments, timers, now, pc, local, callStack,
                   response>>

ReleaseCall(s, k) ==
    /\ bookedSlots' = releaseReservation(bookedSlots, k, s)
    /\ UNCHANGED <<limiterVars, slotKeys, cacheVars, requests, conversations, appointments, timers, now, pc, local, callStack,
                   response, slotCalls>>

SlotNext ==
    \/ \E s \in Sessions, d \in CallInstants : ReserveCall(s, d)
    \/ \E s \in Sessions, k \in CallKeys : ConfirmCall(s, k)
    \/ \E s \in Sessions, k \in CallKeys : ReleaseCall(s, k)
    \/ Tick
    \/ \E t \in timers : TimerFire(t)
    \/ Cleanup

SlotSpec == Init /\ [][SlotNext]_vars

(***************************************************************************)
(* The cache called directly: get with a generator that resolves or        *)
(* rejects later, the cleanup interval, and the clock.                     *)
(***************************************************************************)
\* warmHits after a step: the count restarts when the watched entry arrives
\* in the warm tier, and ends when it leaves it
warmHitsAfter(before, after, count, reads) ==
    IF ~TierHas(after.l2, Watched)
    THEN 0
    ELSE IF /\ TierHas(before.l2, Watched)
            /\ TierGet(before.l2, Watched).timestamp = TierGet(after.l2, Watched).timestamp
    THEN count + reads
    ELSE 0

\* the entries of the question have been accessed fewer than `bound` times
Followed(input, bound) ==
    \A tier \in {layers.l1, layers.l2} :
        TierHas(tier, generateKey(input)) =>
            TierGet(tier, generateKey(input)).hits < bound

\* get(input, generator, {ttl}) up to its return on a hit or to the call of
\* the generator on a miss
Get(input, optionsTtl) ==
    /\ Len(inflight) < MaxInflight
    /\ \E r \in {lookup(layers, generateKey(input), now)} :
          /\ layers' = r.layers
          /\ IF r.hit
             THEN /\ cacheResult' = Returned(r.value)
                  /\ UNCHANGED inflight
             ELSE /\ inflight' = Append(inflight,
                                        [key |-> generateKey(input),
                                         ttl |-> effectiveTtl(optionsTtl),
                                         cached |-> r.cached])
                  /\ UNCHANGED cacheResult
    /\ warmHits' = warmHitsAfter(layers, layers', warmHits,
                                 IF generateKey(input) = Watched
                                    /\ ~TierHas(layers.l1, Watched) THEN 1 ELSE 0)
    /\ UNCHANGED <<limiterVars, slotKeys, requests, conversations, appointments, bookedSlots, timers, now, pc, local,
                   callStack, response, slotCalls, created, disk, loading>>

WithoutCall(calls, i) == SubSeq(calls, 1, i - 1) \o SubSeq(calls, i + 1, Len(calls))

\* the generator of a waiting get resolves: the value is stored and returned
GeneratorReturns(i, value) ==
    /\ i \in 1..Len(inflight)
    /\ layers' = set(layers, inflight[i].key, value, inflight[i].ttl, now)
    /\ cacheResult' = Returned(value)
    /\ created' = IF inflight[i].key = Watched
                  THEN [found |-> TRUE, value |-> value, timestamp |-> now,
                        ttl |-> inflight[i].ttl]
                  ELSE created
    /\ inflight' = WithoutCall(inflight, i)
    /\ warmHits' = warmHitsAfter(layers, layers', warmHits, 0)
    /\ UNCHANGED <<limiterVars, slotKeys, requests, conversations, appointments, bookedSlots, timers, now, pc, local,
                   callStack, response, slotCalls, disk, loading>>

\* the generator of a waiting get rejects: the catch block of get
GeneratorThrows(i) ==
    /\ i \in 1..Len(inflight)
    /\ cacheResult' = staleOrThrow(inflight[i].cached)
    /\ inflight' = WithoutCall(inflight, i)
    /\ UNCHANGED <<limiterVars, slotKeys, requests, conversations, appointments, bookedSlots, timers, now, pc, local,
                   callStack, response, slotCalls, layers, created, warmHits, disk,
                   loading>>

\* the callback of setInterval(() => this.cleanup(), 60000)
CacheCleanup ==
    /\ layers' = cleanup(layers, now)
    /\ warmHits' = warmHitsAfter(layers, layers', warmHits, 0)
    /\ UNCHANGED <<limiterVars, slotKeys, requests, conversations, appointments, bookedSlots, timers, now, pc, local,
                   callStack, response, slotCalls, inflight, cacheResult, created,
                   disk, loading>>

\* a minute passes
CacheTick ==
    /\ now < Now0 + MaxCacheTicks
    /\ now' = now + 1
    /\ UNCHANGED <<limiterVars, slotKeys, requests, conversations, appointments, bookedSlots, timers, pc, local,
                   callStack, response, slotCalls, cacheVars, requests>>

CacheNext ==
    \/ \E call \in CacheCalls : Followed(call[1], MaxHits) /\ Get(call[1], call[2])
    \/ \E i \in 1..MaxInflight, value \in GenValues : GeneratorReturns(i, value)
    \/ \E i \in 1..MaxInflight : GeneratorThrows(i)
    \/ CacheCleanup
    \/ CacheTick

CacheSpec == Init /\ [][CacheNext]_vars

\* the cache asked enough questions for its tiers to overflow
EvictionNext ==
    \/ \E call \in EvictionCalls : Followed(call[1], MaxHits) /\ Get(call[1], call[2])
    \/ \E i \in 1..MaxInflight, value \in GenValues : GeneratorReturns(i, value)
    \/ \E i \in 1..MaxInflight : GeneratorThrows(i)
    \/ CacheCleanup
    \/ CacheTick

EvictionSpec == Init /\ [][EvictionNext]_vars

\* the cache asked the same questions often enough for promote to act
PromotionNext ==
    \/ \E call \in CacheCalls : Followed(call[1], MaxPromotionHits) /\ Get(call[1], call[2])
    \/ \E i \in 1..MaxInflight, value \in GenValues : GeneratorReturns(i, value)
    \/ \E i \in 1..MaxInflight : GeneratorThrows(i)
    \/ CacheCleanup
    \/ CacheTick

PromotionSpec == Init /\ [][PromotionNext]_vars


(***************************************************************************)
(* Persistence: the snapshot written by the persist interval, the file     *)
(* damaged while the process is down or cut short by a crash, the process  *)
(* restarted, and loadFromDisk finishing.  The constructor does not wait   *)
(* for initialize: get can be called while the load is pending.            *)
(***************************************************************************)
\* the callback of setInterval(() => this.persistToDisk(), persistInterval)
PersistToDisk ==
    /\ ~loading
    /\ disk' = persistToDisk(layers)
    /\ UNCHANGED <<limiterVars, slotKeys, requests, conversations, appointments, bookedSlots, timers, now, pc, local,
                   callStack, response, slotCalls, layers, inflight, cacheResult,
                   created, warmHits, loading>>

\* the file is damaged
Damage(file) ==
    /\ disk.kind = "json"
    /\ disk.malformed = {}
    /\ file \in damaged(disk)
    /\ disk' = file
    /\ UNCHANGED <<limiterVars, slotKeys, requests, conversations, appointments, bookedSlots, timers, now, pc, local,
                   callStack, response, slotCalls, layers, inflight, cacheResult,
                   created, warmHits, loading>>

\* the process is started again: its memory is that of the constructor
Restart ==
    /\ ~loading
    /\ layers' = [l1 |-> << >>, l2 |-> << >>]
    /\ inflight' = << >>
    /\ cacheResult' = NoResult
    /\ created' = NotCreated
    /\ warmHits' = 0
    /\ loading' = TRUE
    /\ UNCHANGED <<limiterVars, slotKeys, requests, conversations, appointments, bookedSlots, timers, now, pc, local,
                   callStack, response, slotCalls, disk>>

\* initialize: loadFromDisk returns
LoadFromDisk ==
    /\ loading
    /\ layers' = loadFromDisk(layers, disk, now)
    /\ warmHits' = warmHitsAfter(layers, layers', warmHits, 0)
    /\ loading' = FALSE
    /\ UNCHANGED <<limiterVars, slotKeys, requests, conversations, appointments, bookedSlots, timers, now, pc, local,
                   callStack, response, slotCalls, inflight, cacheResult, created, disk>>

\* one snapshot is followed from its writing to the start that loads it, with
\* generators that resolve
StartupNext ==
    \/ \E call \in CacheCalls : Followed(call[1], MaxHits) /\ Get(call[1], call[2])
    \/ \E i \in 1..MaxInflight : GeneratorReturns(i, "v1")
    \/ CacheTick
    \/ disk = NoFile /\ PersistToDisk
    \/ \E file \in damaged(disk) : Damage(file)
    \/ disk # NoFile /\ Restart
    \/ LoadFromDisk

StartupSpec == Init /\ [][StartupNext]_vars

(***************************************************************************)
(* The cache called as the Q&A branch of handleMessage calls it            *)
(* (part_002, lines 182-209): findSimilar, then get with the request as    *)
(* the key and GeminiService.generateResponse as the generator.            *)
(***************************************************************************)
\* findSimilar(message), and on a miss get({message, history, context}, ...)
\* up to its return or to the call of the generator
Answer(message) ==
    /\ Len(inflight) < MaxInflight
    /\ \E sim \in {findSimilar(layers, message, now)} :
          IF sim.found
          THEN /\ cacheResult' = Returned(sim.value)
               /\ UNCHANGED <<layers, inflight>>
          ELSE \E r \in {lookup(layers, requestKey(message, FreshId(message)), now)} :
                  /\ layers' = r.layers
                  /\ IF r.hit
                     THEN /\ cacheResult' = Returned(r.value)
                          /\ UNCHANGED inflight
                     ELSE /\ inflight' = Append(inflight,
                                                [key |-> requestKey(message, FreshId(message)),
                                                 ttl |-> effectiveTtl(AnswerTtl),
                                                 cached |-> r.cached])
                          /\ UNCHANGED cacheResult
    /\ warmHits' = warmHitsAfter(layers, layers', warmHits, 0)
    /\ UNCHANGED <<limiterVars, slotKeys, requests, conversations, appointments, bookedSlots, timers, now, pc, local,
                   callStack, response, slotCalls, created, disk, loading>>

\* the questions asked
qDog == <<"m","y"," ","d","o","g">>
qDogs == <<"M","y"," ","d","o","g","s">>
qToxic == <<"t","o","x","i","c"," ","f","o","o","d","s","?">>
qFleas == <<"f","l","e","a","s">>

Questions == {qDog, qDogs, qToxic, qFleas}

SimilarNext ==
    \/ \E message \in Questions : Answer(message)
    \/ \E i \in 1..MaxInflight, text \in Generations :
          GeneratorReturns(i, generateResponse(text))
    \/ CacheCleanup
    \/ CacheTick

SimilarSpec == Init /\ [][SimilarNext]_vars

\* get called as the Q&A turn calls it (part_002 lines 193-206), with
\* generateResponse as the generator, and called again for the same key
ApologyNext ==
    \/ \E call \in CacheCalls : Followed(call[1], MaxHits) /\ Get(call[1], call[2])
    \/ \E i \in 1..MaxInflight, text \in Generations :
          GeneratorReturns(i, generateResponse(text))
    \/ CacheTick

ApologySpec == Init /\ [][ApologyNext]_vars

(***************************************************************************)
(* Overlapping turns of one session.  handleMessage awaits                 *)
(* Conversation.findOne, works on the document it loaded, and awaits       *)
(* conversation.save(); nothing orders two requests of a session, so a     *)
(* second request can load the document before the first has saved it.     *)
(* Two requests are followed through that window, at the owner-name        *)
(* question and at the confirmation step; every other turn of the session  *)
(* is taken in one step.                                                   *)
(***************************************************************************)
MaxOverlapAppointments == 2    \* Appointment documents persisted by overlapping turns

\* what an overlapping request sends
OverlapMessages(state) ==
    CASE state = "ASK_PET_NAME" -> {mJane, mRex}
      [] state = "COMPLETED" -> {mYes}
      [] OTHER -> {}

\* lines 13-45: the request arrives and findOne resolves
Receive(r, m) ==
    /\ requests[r].stage = "idle"
    /\ ~Blocked
    /\ ~TimersDue
    /\ m \in OverlapMessages(conversations[OverlapSession].appointmentState)
    /\ requests' = [requests EXCEPT ![r] =
                      [stage |-> "loaded", message |-> m,
                       doc |-> conversations[OverlapSession],
                       seen |-> Len(appointments)]]
    /\ UNCHANGED <<limiterVars, slotKeys, cacheVars, conversations, appointments, bookedSlots, timers, now, pc,
                   local, callStack, response, slotCalls>>

\* lines 78-102 and 212-226 on the loaded document: yes at the confirmation step
RespondYes(r, s) ==
    /\ requests[r].doc.appointmentState = "COMPLETED"
    /\ IsYes(requests[r].message)
    /\ Len(appointments) < MaxOverlapAppointments
    /\ \E data \in {requests[r].doc.appointmentData} :
       \E c \in {confirmDraft(bookedSlots, data, s)} :
          IF ~c.ok
          THEN /\ response' = [response EXCEPT ![s] = ErrorReply(500, "An error occurred")]
               /\ UNCHANGED <<conversations, appointments, bookedSlots>>
          ELSE IF ~AppointmentValid(data)
          THEN /\ bookedSlots' = c.slots
               /\ response' = [response EXCEPT ![s] = ErrorReply(500, "An error occurred")]
               /\ UNCHANGED <<conversations, appointments>>
          ELSE /\ bookedSlots' = c.slots
               /\ appointments' = Append(appointments, NewAppointment(s, data))
               /\ conversations' = [conversations EXCEPT ![s] = Saved("NONE", data)]
               /\ response' = [response EXCEPT ![s] =
                                 Reply("Your appointment has been successfully booked!", "COMPLETED")]

\* lines 112-124, 157-163 and 212-226 on the loaded document: an answer to a
\* question of the flow.  save() writes the paths the turn assigned
RespondAnswer(r, s) ==
    /\ InFlow(requests[r].doc.appointmentState)
    /\ \E conv \in {requests[r].doc} :
       \E bookingResponse \in
             {processBookingResponse(conv.appointmentState, requests[r].message,
                                     conv.appointmentData, now)} :
       \E nextQuestion \in {getNextQuestion(conv.appointmentState)} :
          IF ~bookingResponse.isValid
          THEN /\ response' = [response EXCEPT ![s] =
                                 Reply(bookingResponse.errorMessage, conv.appointmentState)]
               /\ UNCHANGED conversations
          ELSE /\ conversations' = [conversations EXCEPT ![s] =
                                      Saved(nextQuestion.nextState, bookingResponse.data)]
               /\ response' = [response EXCEPT ![s] =
                                 Reply(nextQuestion.message, nextQuestion.nextState)]
    /\ UNCHANGED <<appointments, bookedSlots>>

\* the rest of the turn of a request that has loaded its document
Respond(r) ==
    /\ requests[r].stage = "loaded"
    /\ ~Blocked
    /\ ~TimersDue
    /\ RespondYes(r, OverlapSession) \/ RespondAnswer(r, OverlapSession)
    /\ requests' = [requests EXCEPT ![r] = NoRequest]
    /\ UNCHANGED <<limiterVars, slotKeys, cacheVars, timers, now, pc, local, callStack, slotCalls>>

\* a turn of the session taken in one step; its user walks the booking path
BookingTurn(s, m) ==
    \/ StartBooking(s, m)
    \/ AcceptAnswer(s, m)
    \/ DateTimeCheck(s, m)
    \/ ConfirmYes(s, m)

OverlapNext ==
    \/ \E m \in Messages : BookingTurn(OverlapSession, m)
    \/ AfterAvailability(OverlapSession)
    \/ Tick
    \/ \E t \in timers : TimerFire(t)
    \/ Cleanup
    \/ \E r \in Overlapping, m \in Messages : Receive(r, m)
    \/ \E r \in Overlapping : Respond(r)

OverlapSpec == Init /\ [][OverlapNext]_vars
(***************************************************************************)
(* The yes turn when the database rejects the Appointment                  *)
(* (part_002 lines 80-102, 228-233): appointment.save() rejects, the       *)
(* statements after it do not run, and the catch answers status 500.       *)
(***************************************************************************)
AppointmentSaveFails(s, m) ==
    /\ conversations[s].appointmentState = "COMPLETED"
    /\ Ready(s, m)
    /\ NonEmpty(m)
    /\ IsYes(m)
    /\ \E c \in {confirmDraft(bookedSlots, conversations[s].appointmentData, s)} :
          /\ c.ok
          /\ bookedSlots' = c.slots
    /\ response' = [response EXCEPT ![s] = ErrorReply(500, "An error occurred")]
    /\ UNCHANGED <<conversations, appointments>>
    /\ UNCHANGED <<limiterVars, slotKeys, cacheVars, requests, timers, now, pc, local, callStack, slotCalls>>

FailureNext ==
    \/ Next
    \/ \E s \in Sessions, m \in Messages : AppointmentSaveFails(s, m)

FailureSpec == Init /\ [][FailureNext]_vars

(***************************************************************************)
(* The rate limiter as app.use(rateLimiter.middleware()) runs it: before   *)
(* every route, GET /health included (app.js lines 45-48, 79).             *)
(***************************************************************************)
otherVars == <<conversations, appointments, bookedSlots, timers, now, pc, local,
               callStack, response, slotCalls, cacheVars, requests>>

\* the instants of the window (current - Interval, current]
withinInterval(instants, current) ==
    SelectSeq(instants, LAMBDA t : t > current - Interval)

\* the instants recorded for a client and a path
admittedAt(log, ip, path) ==
    IF <<ip, path>> \in DOMAIN log THEN log[<<ip, path>>] ELSE << >>

\* middleware(): one request of a client; suspicious is hasSuspiciousContent(req)
LimiterRequest(ip, path, suspicious) ==
    /\ \E chk \in {isBlocked(blockedIPs, ip, clock)} :
          IF chk.blocked
          THEN /\ verdict' = [path |-> path, status |-> 429]
               /\ UNCHANGED <<buckets, blockedIPs, unblockTimers, admitted>>
          ELSE IF suspicious
          THEN \E b \in {blockIP(chk.blockedIPs, unblockTimers, ip, SuspiciousBlock, clock)} :
                  /\ blockedIPs' = b.blockedIPs
                  /\ unblockTimers' = b.unblockTimers
                  /\ verdict' = [path |-> path, status |-> 403]
                  /\ UNCHANGED <<buckets, admitted>>
          ELSE \E c \in {consumeToken(buckets, ip, getEndpointKey(path), clock)} :
                  /\ buckets' = c.buckets
                  /\ IF ~c.allowed
                     THEN \E b \in {blockIP(chk.blockedIPs, unblockTimers, ip,
                                            limits[getEndpointKey(path)].blockDuration, clock)} :
                             /\ blockedIPs' = b.blockedIPs
                             /\ unblockTimers' = b.unblockTimers
                             /\ verdict' = [path |-> path, status |-> 429]
                             /\ UNCHANGED admitted
                     ELSE /\ blockedIPs' = chk.blockedIPs
                          /\ admitted' = MapSet(admitted, <<ip, path>>,
                                                Append(admittedAt(admitted, ip, path), clock))
                          /\ verdict' = [path |-> path, status |-> 200]
                          /\ UNCHANGED unblockTimers
    /\ UNCHANGED <<clock, otherVars, slotKeys>>

\* the callback blockIP scheduled
UnblockFire(t) ==
    /\ t.at <= clock
    /\ blockedIPs' = MapDelete(blockedIPs, t.ip)
    /\ unblockTimers' = unblockTimers \ {t}
    /\ UNCHANGED <<buckets, admitted, clock, verdict, otherVars, slotKeys>>

\* the setInterval callback of startCleanup, once per interval
LimiterCleanup ==
    /\ clock > 0
    /\ clock % Interval = 0
    /\ \E swept \in {limiterCleanup(buckets, blockedIPs, clock)} :
          /\ buckets' = swept.buckets
          /\ blockedIPs' = swept.blockedIPs
    /\ UNCHANGED <<unblockTimers, admitted, clock, verdict, otherVars, slotKeys>>

LimiterTick ==
    /\ clock < MaxLimiterTicks
    /\ \A t \in unblockTimers : t.at > clock
    /\ clock' = clock + 1
    /\ admitted' = [k \in DOMAIN admitted |-> withinInterval(admitted[k], clock + 1)]
    /\ UNCHANGED <<buckets, blockedIPs, unblockTimers, verdict, otherVars, slotKeys>>

LimiterNext ==
    \/ \E ip \in IPs, path \in Paths, suspicious \in BOOLEAN : LimiterRequest(ip, path, suspicious)
    \/ \E t \in unblockTimers : UnblockFire(t)
    \/ LimiterCleanup
    \/ LimiterTick

LimiterSpec == Init /\ [][LimiterNext]_vars

(***************************************************************************)
(* getSlotKey called on Dates that carry seconds and milliseconds          *)
(* (part_005 lines 318-325).                                               *)
(***************************************************************************)
Tuesday0900Ms == Tuesday0900 * MsPerMinute

\* 09:00:00.000, 09:00:00.001, 09:14:59.999, 09:29:59.999, 09:30:00.000,
\* 09:59:30.500, 10:00:00.000 on Tuesday, and 09:10:20.300 on Wednesday
KeyDates ==
    {Tuesday0900Ms,
     Tuesday0900Ms + 1,
     Tuesday0900Ms + 14 * MsPerMinute + 59999,
     Tuesday0900Ms + 29 * MsPerMinute + 59999,
     Tuesday0900Ms + 30 * MsPerMinute,
     Tuesday0900Ms + 59 * MsPerMinute + 30500,
     Tuesday0900Ms + 60 * MsPerMinute,
     Tuesday0900Ms + (MinutesPerDay + 10) * MsPerMinute + 20300}

GetSlotKey(date) ==
    /\ slotKeys' = slotKeys \cup {[date |-> date, key |-> getSlotKeyMs(date)]}
    /\ UNCHANGED <<limiterVars, otherVars>>

KeyNext == \E date \in KeyDates : GetSlotKey(date)

KeySpec == Init /\ [][KeyNext]_vars

(***************************************************************************)
(* Properties                                                              *)
(***************************************************************************)
\* the chain of booking states as the specification draws it
ChainNext ==
    [NONE |-> "ASK_PET_NAME", ASK_PET_NAME |-> "ASK_PHONE", ASK_PHONE |-> "ASK_DATE_TIME",
     ASK_DATE_TIME |-> "CONFIRMATION", CONFIRMATION |-> "COMPLETED", COMPLETED |-> "NONE"]

\* the draft field a turn fills when it enters a state
CollectedOnEntering ==
    [ASK_PHONE |-> "ownerName", ASK_DATE_TIME |-> "petName",
     CONFIRMATION |-> "phone", COMPLETED |-> "preferredDateTime"]

DraftFields == {"ownerName", "petName", "phone", "preferredDateTime"}

ChainStep(s) ==
    LET a == conversations[s].appointmentState
        b == conversations'[s].appointmentState
        d == conversations[s].appointmentData
        e == conversations'[s].appointmentData
    IN /\ b # "ASK_OWNER_NAME"
       /\ b \in {a, ChainNext[a], "NONE"}
       /\ (a = "NONE" /\ b = "ASK_PET_NAME") => e = d
       /\ (InFlow(a) /\ b = ChainNext[a]) =>
             /\ e[CollectedOnEntering[b]] # NoText
             /\ \A f \in DraftFields \ {CollectedOnEntering[b]} : e[f] = d[f]

\* C1: the booking state of a session only moves along the chain NONE,
\* ASK_PET_NAME, ASK_PHONE, ASK_DATE_TIME, CONFIRMATION, COMPLETED, NONE, or
\* back to NONE; no turn skips a state or moves backwards, the stored state is
\* never ASK_OWNER_NAME, and the steps along the chain fill the owner name,
\* the pet name, the phone and the date/time, in that order, one per step.
C1_ChainOrder == [][\A s \in Sessions : ChainStep(s)]_vars

\* a session that walked the whole chain: its appointment is stored and its
\* state is NONE again
C1_Witness ==
    \E s \in Sessions :
        /\ conversations[s].appointmentState = "NONE"
        /\ \E i \in 1..Len(appointments) : appointments[i].sessionId = s
        /\ response[s].message = "Your appointment has been successfully booked!"

\* the field rule of each in-flow state, as the specification words it
FailsFieldRule(state, m, t) ==
    CASE state = "ASK_PET_NAME" -> Len(trim(m)) < 2
      [] state = "ASK_PHONE" -> Len(trim(m)) < 1
      [] state = "ASK_DATE_TIME" -> Len(stripNonDigits(m)) # 10
      [] state = "CONFIRMATION" -> Len(trim(m)) < 3 \/ ~dateValidation[m, t].valid
      [] OTHER -> FALSE

\* the corrective message of each rule
Corrective(state, m, t) ==
    CASE state = "ASK_PET_NAME" -> "Please provide a valid name."
      [] state = "ASK_PHONE" -> "Please provide your pet's name."
      [] state = "ASK_DATE_TIME" -> "Please provide a valid 10-digit phone number."
      [] state = "CONFIRMATION" ->
            IF Len(trim(m)) < 3 THEN "Please provide a preferred date and time."
            ELSE dateValidation[m, t].message
      [] OTHER -> ""

\* the rule and its message for every state, message and clock value
fieldRule ==
    [state \in States, m \in Messages, t \in Clock |->
        [fails |-> FailsFieldRule(state, m, t), corrective |-> Corrective(state, m, t)]]

\* the message is neither empty once trimmed nor holds a cancellation phrase
plainText ==
    [m \in Messages |->
        /\ Len(trim(m)) > 0
        /\ \A phrase \in cancelPhrases : ~includes(toLowerCase(m), phrase)]

Reprompted(s, m) ==
    /\ conversations'[s].appointmentState = conversations[s].appointmentState
    /\ conversations'[s].appointmentData = conversations[s].appointmentData
    /\ response'[s] = Reply(fieldRule[conversations[s].appointmentState, m, now].corrective,
                            conversations[s].appointmentState)

\* C2 as stated: in every in-flow state a message that fails the field rule
\* of the state leaves the booking state and the draft unchanged, and the
\* reply is the corrective re-prompt.
C2_AsStated ==
    [][\A s \in Sessions, m \in Messages :
          (/\ InFlow(conversations[s].appointmentState)
           /\ fieldRule[conversations[s].appointmentState, m, now].fails
           /\ HandleMessage(s, m))
          => Reprompted(s, m)]_vars

\* C2: in every in-flow state a message that is not empty once trimmed, holds
\* no cancellation phrase and fails the field rule of the state leaves the
\* booking state and the draft unchanged, and the reply is the rule's
\* corrective message with the same state.
C2_InvalidAnswer ==
    [][\A s \in Sessions, m \in Messages :
          (/\ InFlow(conversations[s].appointmentState)
           /\ fieldRule[conversations[s].appointmentState, m, now].fails
           /\ plainText[m]
           /\ HandleMessage(s, m))
          => Reprompted(s, m)]_vars

\* a session re-asked for its name after a one-letter answer
C2_Witness ==
    \E s \in Sessions :
        /\ conversations[s].appointmentState = "ASK_PET_NAME"
        /\ response[s] = Reply("Please provide a valid name.", "ASK_PET_NAME")

\* C3: once the date/time text validates, an unavailable instant leaves the
\* booking state and the slot map as they are; an available one gets a
\* reserved entry at its 30-minute bucket owned by the session, the slot key
\* is stored in the draft, and the state advances to the confirmation step.
C3_DateStep ==
    [][\A s \in Sessions :
          AfterAvailability(s) =>
             IF ~local[s].availability.available
             THEN /\ conversations'[s].appointmentState = conversations[s].appointmentState
                  /\ bookedSlots' = bookedSlots
             ELSE /\ getSlotKey(local[s].appointmentDate) \in DOMAIN bookedSlots'
                  /\ bookedSlots'[getSlotKey(local[s].appointmentDate)].type = "reserved"
                  /\ bookedSlots'[getSlotKey(local[s].appointmentDate)].sessionId = s
                  /\ conversations'[s].appointmentData.slotKey
                        = getSlotKey(local[s].appointmentDate)
                  /\ conversations'[s].appointmentState = "COMPLETED"]_vars

Live(entry, t) ==
    \/ entry.type = "confirmed"
    \/ entry.type = "reserved" /\ ~(entry.expiresAt < t)

\* C5: when the date/time turns of two sessions for one bucket interleave at
\* their awaits, the live entry of one session is never replaced by an entry
\* of the other.
C5_NoTakeover ==
    [][\A k \in DOMAIN bookedSlots :
          (Live(bookedSlots[k], now) /\ k \in DOMAIN bookedSlots')
          => bookedSlots'[k].sessionId = bookedSlots[k].sessionId]_vars

\* the sessions that called reserveSlot on a key
Reservers(k) == {slotCalls[k].reservers[i] : i \in 1..Len(slotCalls[k].reservers)}

\* C6: once two sessions have called reserveSlot for one slot, at most one of
\* them completes confirmReservation for its key afterwards, and that one is
\* the session that reserved last; for any other session it throws.
C6_OneConfirms ==
    \A k \in CallKeys :
        Cardinality(Reservers(k)) >= 2 =>
            /\ Cardinality(slotCalls[k].confirmed) <= 1
            /\ slotCalls[k].confirmed
                  \subseteq {slotCalls[k].reservers[Len(slotCalls[k].reservers)]}
            /\ slotCalls[k].confirmed \cap slotCalls[k].failed = {}

\* both sessions reserved one slot and both confirmed: one call returned, the
\* other threw
C6_Witness ==
    \E k \in CallKeys :
        /\ Reservers(k) = Sessions
        /\ Cardinality(slotCalls[k].confirmed) = 1
        /\ slotCalls[k].failed = Sessions \ slotCalls[k].confirmed

\* the instant a formatted date/time of the draft stands for
instantOf(formatted) ==
    formatted[2] * MinutesPerDay
        + ((formatted[3] % 12) + (IF formatted[5] = "PM" THEN 12 ELSE 0)) * 60
        + formatted[4]

\* the slot key of the booking a session is about to confirm
DraftKey(s) == getSlotKey(instantOf(conversations[s].appointmentData.preferredDateTime))

\* the reservation made at the date/time step is still the session's
HoldsReservation(s) ==
    /\ DraftKey(s) \in DOMAIN bookedSlots
    /\ bookedSlots[DraftKey(s)].sessionId = s

\* C7: a yes-family message in state COMPLETED, from a session whose date/time
\* step reserved a slot, confirms the slot entry, stores exactly one more
\* Appointment, pending and of this session, and sets the state to NONE.
C7_YesConfirms ==
    [][\A s \in Sessions, m \in Messages :
          (ConfirmYes(s, m) /\ HoldsReservation(s)) =>
             /\ DraftKey(s) \in DOMAIN bookedSlots'
             /\ bookedSlots'[DraftKey(s)].type = "confirmed"
             /\ bookedSlots'[DraftKey(s)].sessionId = s
             /\ Len(appointments') = Len(appointments) + 1
             /\ appointments'[Len(appointments')].sessionId = s
             /\ appointments'[Len(appointments')].status = "pending"
             /\ conversations'[s].appointmentState = "NONE"]_vars

\* C8: a yes-family message from a session whose reservation is gone or is
\* another session's creates no Appointment.
C8_NoAppointment ==
    [][\A s \in Sessions, m \in Messages :
          (ConfirmYes(s, m) /\ ~HoldsReservation(s)) => appointments' = appointments]_vars

\* C9: a cancellation in the middle of the flow sets the state to NONE,
\* empties the draft and leaves no reservation of the session in the slot map.
C9_CancelReleases ==
    [][\A s \in Sessions, m \in Messages :
          CancelBooking(s, m) =>
             /\ conversations'[s].appointmentState = "NONE"
             /\ conversations'[s].appointmentData = EmptyData
             /\ \A k \in DOMAIN bookedSlots' :
                   ~(bookedSlots'[k].sessionId = s /\ bookedSlots'[k].type = "reserved")]_vars

\* C10: in state COMPLETED the trimmed, lower-cased message is compared for
\* equality: yes, confirm and y finalize the booking; no, cancel and n abort
\* it (state NONE, draft cleared, no Appointment); every other message leaves
\* the state at COMPLETED, the draft, the Appointments and the slot map as
\* they are.
C10_ExactMatch ==
    [][\A s \in Sessions, m \in Messages :
          (conversations[s].appointmentState = "COMPLETED" /\ HandleMessage(s, m)) =>
             IF trim(toLowerCase(m)) \in {W_yes, W_confirm, W_y}
             THEN /\ Len(appointments') = Len(appointments) + 1
                  /\ conversations'[s].appointmentState = "NONE"
             ELSE IF trim(toLowerCase(m)) \in {W_no, W_cancel, W_n}
             THEN /\ conversations'[s].appointmentState = "NONE"
                  /\ conversations'[s].appointmentData = EmptyData
                  /\ appointments' = appointments
             ELSE /\ conversations'[s].appointmentState = "COMPLETED"
                  /\ conversations'[s].appointmentData = conversations[s].appointmentData
                  /\ appointments' = appointments
                  /\ bookedSlots' = bookedSlots]_vars

\* a session told to type yes or no, still at the confirmation step
C10_Witness ==
    \E s \in Sessions :
        /\ conversations[s].appointmentState = "COMPLETED"
        /\ response[s] = Reply("Please type yes to confirm or no to start over.", "COMPLETED")

\* C11: in every successful reply the booking state equals the state stored
\* for the session at the end of the turn.
C11_ReplyState ==
    \A s \in Sessions :
        response[s].status = 200 =>
            response[s].appointmentState = conversations[s].appointmentState

\* a draft with every field the flow collects, each within its rule
CompleteDraft(d) ==
    /\ Len(d.ownerName) >= 2
    /\ Len(d.petName) >= 1
    /\ Len(d.phone) = 10
    /\ \A i \in 1..Len(d.phone) : IsDigit(d.phone[i])
    /\ d.preferredDateTime # NoText

\* an Appointment appears only in a yes turn at COMPLETED, from a complete draft
CreatedByYes ==
    appointments' # appointments =>
        \E s \in Sessions :
            /\ conversations[s].appointmentState = "COMPLETED"
            /\ \E m \in Messages :
                  /\ trim(toLowerCase(m)) \in {W_yes, W_confirm, W_y}
                  /\ HandleMessage(s, m)
            /\ CompleteDraft(conversations[s].appointmentData)
            /\ appointments' =
                  Append(appointments,
                         [sessionId |-> s,
                          ownerName |-> conversations[s].appointmentData.ownerName,
                          petName |-> conversations[s].appointmentData.petName,
                          phone |-> conversations[s].appointmentData.phone,
                          preferredDateTime |->
                              conversations[s].appointmentData.preferredDateTime,
                          status |-> "pending"])

\* what a turn does to the draft: a step along the chain writes its field from
\* the message of the turn, a turn that stays in the flow keeps the fields
\* already collected, and a flow that is cancelled leaves an empty draft
FlowStep(s) ==
    LET a == conversations[s].appointmentState
        b == conversations'[s].appointmentState
        d == conversations[s].appointmentData
        e == conversations'[s].appointmentData
    IN /\ (a = "ASK_PET_NAME" /\ b = "ASK_PHONE") =>
             \E m \in Messages : HandleMessage(s, m) /\ e.ownerName = trim(m)
       /\ (a = "ASK_PHONE" /\ b = "ASK_DATE_TIME") =>
             /\ \E m \in Messages : HandleMessage(s, m) /\ e.petName = trim(m)
             /\ e.ownerName = d.ownerName
       /\ (a = "ASK_DATE_TIME" /\ b = "CONFIRMATION") =>
             /\ \E m \in Messages : HandleMessage(s, m) /\ e.phone = stripNonDigits(m)
             /\ e.ownerName = d.ownerName
             /\ e.petName = d.petName
       /\ (a = "CONFIRMATION" /\ b = "COMPLETED") =>
             /\ e.preferredDateTime = formatDate(local[s].appointmentDate)
             /\ e.ownerName = d.ownerName
             /\ e.petName = d.petName
             /\ e.phone = d.phone
       /\ (InFlow(a) /\ b = a) =>
             /\ e.ownerName = d.ownerName
             /\ e.petName = d.petName
             /\ e.phone = d.phone
       /\ (a = "COMPLETED" /\ b = "COMPLETED") => e = d
       /\ (InFlow(a) /\ b = "NONE") => e = EmptyData
       /\ (a = "COMPLETED" /\ b = "NONE" /\ appointments' = appointments) => e = EmptyData

\* C12: the chat flow creates an Appointment only in a turn of a session in
\* state COMPLETED whose message is yes, confirm or y; the draft then holds an
\* owner name of two characters or more, a pet name, a phone of ten digits and
\* a formatted date/time, each written by a turn of the current flow, and a
\* cancelled flow leaves nothing in the draft.
C12_AppointmentOrigin == [][CreatedByYes /\ \A s \in Sessions : FlowStep(s)]_vars

\* an Appointment stored with the answers of its flow
C12_Witness ==
    \E i \in 1..Len(appointments) :
        /\ appointments[i].ownerName = trim(mJane)
        /\ appointments[i].petName = trim(mRex)
        /\ appointments[i].phone = stripNonDigits(mPhone)
        /\ appointments[i].status = "pending"

\* the slot map without the reservations whose expiry has passed
withoutExpired(slots, t) ==
    IF \A k \in DOMAIN slots : slots[k].type = "reserved" /\ slots[k].expiresAt < t
    THEN << >>
    ELSE [k \in {j \in DOMAIN slots :
                    ~(slots[j].type = "reserved" /\ slots[j].expiresAt < t)} |-> slots[k]]

\* C13: a reservation whose expiry has passed counts as absent in every
\* availability decision: for every instant checkAvailability gives the verdict
\* it gives on the slot map without the expired reservations, whether or not
\* the release timer or the sweep has run.
C13_ExpiredIsAbsent ==
    \A d \in CallInstants :
        checkVerdict(bookedSlots, d, now).reason
            = checkVerdict(withoutExpired(bookedSlots, now), d, now).reason

\* C14: a confirmed entry stays at its key, confirmed and owned by the same
\* session, under every later operation of the slot manager.
C14_ConfirmedStays ==
    [][\A k \in DOMAIN bookedSlots :
          bookedSlots[k].type = "confirmed" =>
             /\ k \in DOMAIN bookedSlots'
             /\ bookedSlots'[k].type = "confirmed"
             /\ bookedSlots'[k].sessionId = bookedSlots[k].sessionId]_vars

\* every entry but the one at key k is the same before and after the step
OthersUntouched(k) ==
    /\ DOMAIN bookedSlots' \ {k} = DOMAIN bookedSlots \ {k}
    /\ \A j \in DOMAIN bookedSlots \ {k} : bookedSlots'[j] = bookedSlots[j]

\* C15: confirmReservation throws and leaves the slot map as it is when the
\* key has no entry or the entry is another session's; otherwise it returns
\* and the entry is confirmed, without expiry, with the same owner and date,
\* be it the first confirmation or a repeated one.
C15_Confirm ==
    [][\A s \in Sessions, k \in CallKeys :
          ConfirmCall(s, k) =>
             IF k \notin DOMAIN bookedSlots \/ bookedSlots[k].sessionId # s
             THEN /\ bookedSlots' = bookedSlots
                  /\ s \in slotCalls'[k].failed
                  /\ s \notin slotCalls'[k].confirmed
             ELSE /\ k \in DOMAIN bookedSlots'
                  /\ bookedSlots'[k].type = "confirmed"
                  /\ bookedSlots'[k].expiresAt = InvalidDate
                  /\ bookedSlots'[k].sessionId = s
                  /\ bookedSlots'[k].date = bookedSlots[k].date
                  /\ OthersUntouched(k)
                  /\ s \in slotCalls'[k].confirmed
                  /\ s \notin slotCalls'[k].failed]_vars

\* a confirmed entry whose owner's call returned while another session's threw
C15_Witness ==
    \E k \in CallKeys :
        /\ k \in DOMAIN bookedSlots
        /\ bookedSlots[k].type = "confirmed"
        /\ bookedSlots[k].expiresAt = InvalidDate
        /\ slotCalls[k].confirmed = {bookedSlots[k].sessionId}
        /\ slotCalls[k].failed # {}

\* C16: releaseReservation removes the entry at the key only when it is
\* reserved and owned by the session; otherwise it leaves the slot map as it
\* is; entries at other keys are never touched.
C16_Release ==
    [][\A s \in Sessions, k \in CallKeys :
          ReleaseCall(s, k) =>
             IF /\ k \in DOMAIN bookedSlots
                /\ bookedSlots[k].type = "reserved"
                /\ bookedSlots[k].sessionId = s
             THEN k \notin DOMAIN bookedSlots' /\ OthersUntouched(k)
             ELSE bookedSlots' = bookedSlots]_vars

\* a reservation gone before its timer is due while another key keeps its
\* confirmed entry: it was released by a call
C16_Witness ==
    \E k \in CallKeys, t \in timers :
        /\ t.slotKey = k
        /\ t.due > now
        /\ k \notin DOMAIN bookedSlots
        /\ \E j \in DOMAIN bookedSlots : bookedSlots[j].type = "confirmed"

\* the innermost suggestion loop is getNearbyAvailableSlots, about to probe an
\* instant for which checkAvailability reports available
NearbyProbeAvailable ==
    /\ callStack # << >>
    /\ callStack[Len(callStack)].fn = "getNearbyAvailableSlots"
    /\ ~loopDone(callStack[Len(callStack)])
    /\ checkVerdict(bookedSlots, probeDate(callStack[Len(callStack)]), now).available

\* C17: the alternatives suggested for a taken or too-close instant are the
\* first probed instants, in the fixed order, for which checkAvailability
\* reports available: a probe of an available instant adds it to the list.
C17_AvailableProbeKept ==
    [][\A s \in Sessions :
          (NearbyProbeAvailable /\ SuggestStep(s)) =>
             /\ Len(callStack') = Len(callStack)
             /\ callStack'[Len(callStack)].found
                   = callStack[Len(callStack)].found + 1]_vars

\* the instant lies within the buffer of a live booking, as the
\* specification draws the interval
WithinBuffer(slots, d, t) ==
    \E k \in DOMAIN slots :
        /\ Live(slots[k], t)
        /\ slots[k].date - bufferTime <= d
        /\ d <= slots[k].date + slotDuration + bufferTime

\* the bucket of the instant holds no live entry
BucketFree(slots, d, t) ==
    getSlotKey(d) \in DOMAIN slots => ~Live(slots[getSlotKey(d)], t)

\* C18: for an instant inside business hours whose own bucket is free,
\* checkAvailability answers buffer conflict exactly when the instant lies
\* between 10 minutes before the start and 40 minutes after the start of
\* some live booking, both ends included.
C18_BufferInterval ==
    \A d \in CallInstants :
        (isBusinessHour(d) /\ BucketFree(bookedSlots, d, now)) =>
            ((checkVerdict(bookedSlots, d, now).reason = "too_close_to_existing")
                <=> WithinBuffer(bookedSlots, d, now))

\* the latest get of the watched question with the short ttl created an entry
CreatedShort == created.found /\ created.ttl = ShortTtl

\* that entry is still in a tier
StillHeld ==
    \E tier \in {layers.l1, layers.l2} :
        /\ TierHas(tier, Watched)
        /\ TierGet(tier, Watched).timestamp = created.timestamp
        /\ TierGet(tier, Watched).value = created.value

\* the step returns the created value and calls no generator
ReturnsStored ==
    /\ cacheResult' = Returned(created.value)
    /\ inflight' = inflight

\* the step calls the generator for the watched question
InvokesGenerator ==
    /\ Len(inflight') = Len(inflight) + 1
    /\ inflight'[Len(inflight')].key = Watched
    /\ inflight'[Len(inflight')].ttl = ShortTtl

\* the step leaves in the hot tier an entry of the call, made now
StoresResult(call, value) ==
    /\ TierHas(layers'.l1, call.key)
    /\ TierGet(layers'.l1, call.key).value = value
    /\ TierGet(layers'.l1, call.key).timestamp = now
    /\ TierGet(layers'.l1, call.key).ttl = call.ttl

\* C19 as stated: whatever gets ran on other keys since the entry of k was
\* created with ttl T, a get(k, gen, {ttl: T}) issued no more than T after
\* the creation returns the stored value without invoking gen, and one
\* issued later invokes gen again.
C19_AsStated ==
    [][(CreatedShort /\ Get(qA, ShortTtl)) =>
          IF now - created.timestamp <= ShortTtl
          THEN ReturnsStored
          ELSE InvokesGenerator]_vars

\* C19: while the entry created for k with ttl T is still held in a tier, a
\* get(k, gen, {ttl: T}) issued no more than T after the creation returns the
\* stored value without invoking gen; a get issued more than T after the
\* creation invokes gen again, and a generator that resolves has its result
\* stored in the hot tier with the time and the ttl of its call.
C19_WhileHeld ==
    [][/\ (CreatedShort /\ Get(qA, ShortTtl)) =>
             IF now - created.timestamp <= ShortTtl
             THEN StillHeld => ReturnsStored
             ELSE InvokesGenerator
       /\ \A i \in 1..MaxInflight, value \in GenValues :
             GeneratorReturns(i, value) => StoresResult(inflight[i], value)]_vars

\* a get of k issued exactly T after the creation has read the stored entry
C19_Witness ==
    /\ CreatedShort
    /\ now = created.timestamp + ShortTtl
    /\ cacheResult = Returned(created.value)
    /\ \E tier \in {layers.l1, layers.l2} :
          /\ TierHas(tier, Watched)
          /\ TierGet(tier, Watched).timestamp = created.timestamp
          /\ TierGet(tier, Watched).lastAccessed = now
          /\ TierGet(tier, Watched).hits > 0

\* the keys, values, creation times and ttls of a tier, in its order
Contents(tier) ==
    [i \in 1..Len(tier) |->
        [key |-> tier[i].key, value |-> tier[i].value,
         timestamp |-> tier[i].timestamp, ttl |-> tier[i].ttl]]

\* the entry a lookup of the key finds: the hot tier is read first
Held(key) == TierHas(layers.l1, key) \/ TierHas(layers.l2, key)

HeldEntry(key) ==
    IF TierHas(layers.l1, key) THEN TierGet(layers.l1, key) ELSE TierGet(layers.l2, key)

\* the call added last waits with the held entry of its key, if there is one
WaitsWith(key) ==
    /\ Len(inflight') = Len(inflight) + 1
    /\ inflight'[Len(inflight')].key = key
    /\ inflight'[Len(inflight')].cached.found = Held(key)
    /\ Held(key) => inflight'[Len(inflight')].cached.value = HeldEntry(key).value

\* C20: a get that misses calls its generator holding the expired entry of
\* its key, if a tier has one, and changes no key, value, creation time or
\* ttl in the tiers; when the generator fails, the get returns the value of
\* that entry if it held one and throws if it held none, and the tiers are
\* left as they were: no entry is stored.
C20_FailSoft ==
    [][/\ \A call \in CacheCalls :
             (Get(call[1], call[2]) /\ inflight' # inflight) =>
                 /\ WaitsWith(generateKey(call[1]))
                 /\ Contents(layers'.l1) = Contents(layers.l1)
                 /\ Contents(layers'.l2) = Contents(layers.l2)
       /\ \A i \in 1..MaxInflight :
             GeneratorThrows(i) =>
                 /\ layers' = layers
                 /\ IF inflight[i].cached.found
                    THEN /\ cacheResult'.kind = "value"
                         /\ cacheResult'.value = inflight[i].cached.value
                    ELSE cacheResult'.kind = "error"]_vars

\* a failed generator was answered with the stale value of an entry that is
\* still held, expired, in a tier
C20_Witness ==
    /\ cacheResult.log = "Returning stale cache due to error"
    /\ inflight = << >>
    /\ \E key \in {generateKey(call[1]) : call \in CacheCalls} :
          /\ Held(key)
          /\ isExpired(HeldEntry(key), now)
          /\ HeldEntry(key).value = cacheResult.value

\* a generator failed with no entry held for its key: the error reached the
\* caller and the tiers hold nothing
C20_WitnessThrown ==
    /\ cacheResult.kind = "error"
    /\ layers = [l1 |-> << >>, l2 |-> << >>]

\* C21: no cache key is present in the hot tier and in the warm tier at the
\* same time.
C21_OneTier ==
    \A i \in 1..Len(layers.l1) : ~TierHas(layers.l2, layers.l1[i].key)

\* the entry of the key sits in the warm tier only
WarmOnly(key) == TierHas(layers.l2, key) /\ ~TierHas(layers.l1, key)

\* the step moves the watched entry from the warm tier to the hot tier
Promoted ==
    /\ WarmOnly(Watched)
    /\ TierHas(layers'.l1, Watched)
    /\ TierGet(layers'.l1, Watched).timestamp = TierGet(layers.l2, Watched).timestamp

\* C22: an entry is moved from the warm tier to the hot tier when, and only
\* when, it has been accessed more than 5 times while in the warm tier (the
\* access that moves it included); accesses made while it was in the hot
\* tier do not count.
C22_WarmHitsOnly ==
    [][/\ Promoted => warmHits + 1 > PromoteHits
       /\ (/\ WarmOnly(Watched)
           /\ ~isExpired(TierGet(layers.l2, Watched), now)
           /\ warmHits + 1 > PromoteHits
           /\ Get(qA, ShortTtl)) => Promoted]_vars

\* the keys of a tier
Keys(tier) == {tier[i].key : i \in 1..Len(tier)}

\* no entry of the tier was accessed longer ago than this one
Oldest(tier, entry) ==
    \A j \in 1..Len(tier) : entry.lastAccessed <= tier[j].lastAccessed

\* the step is a set of the key by a get whose generator resolved
Inserts(key) ==
    \E i \in 1..Len(inflight), value \in GenValues :
        inflight[i].key = key /\ GeneratorReturns(i, value)

\* the step is a get that finds the key in the warm tier, unexpired, with
\* the hits that promote asks for
Promotes(call) ==
    /\ WarmOnly(generateKey(call[1]))
    /\ ~isExpired(TierGet(layers.l2, generateKey(call[1])), now)
    /\ TierGet(layers.l2, generateKey(call[1])).hits + 1 > PromoteHits
    /\ Get(call[1], call[2])

\* the step brings the key into a hot tier that is at its capacity
Overflows(call) ==
    /\ generateKey(call[1]) \notin Keys(layers.l1)
    /\ Len(layers.l1) + 1 > l1MaxSize
    /\ Inserts(generateKey(call[1])) \/ Promotes(call)

\* the warm tier as the demotion of the victim makes it, before anything is
\* discarded from it: the entries it keeps from before the step (the key
\* that moved to the hot tier has left it), and the victim
WarmWith(key, victim) ==
    {e \in {layers.l2[j] : j \in 1..Len(layers.l2)} :
        e.key # victim.key /\ (e.key = key => TierHas(layers'.l2, key))}
    \cup {victim}

\* the warm tier after the step is `warm`, less its oldest entry if it was
\* over the capacity
WarmSettled(warm) ==
    IF Cardinality(warm) > l2MaxSize
    THEN \E w \in warm :
            /\ \A e \in warm : w.lastAccessed <= e.lastAccessed
            /\ {layers'.l2[j] : j \in 1..Len(layers'.l2)} = warm \ {w}
    ELSE {layers'.l2[j] : j \in 1..Len(layers'.l2)} = warm

\* the step takes the victim out of the hot tier, keeps the other hot
\* entries and the key that came in, and demotes the victim
Evicts(key, victim) ==
    /\ victim.key # key
    /\ Oldest(layers.l1, victim)
    /\ Keys(layers'.l1) = (Keys(layers.l1) \ {victim.key}) \cup {key}
    /\ \A j \in 1..Len(layers.l1) :
          layers.l1[j].key # victim.key =>
              TierGet(layers'.l1, layers.l1[j].key) = layers.l1[j]
    /\ WarmSettled(WarmWith(key, victim))

C24_WithinCapacity ==
    /\ Len(layers.l1) <= l1MaxSize
    /\ Len(layers.l2) <= l2MaxSize

\* both tiers are full, the warm one with an entry that an insertion pushed
\* out of the hot one
C24_Witness ==
    /\ Len(layers.l1) = l1MaxSize
    /\ Len(layers.l2) = l2MaxSize
    /\ Keys(layers.l1) \cap Keys(layers.l2) = {}
    /\ \A j \in 1..Len(layers.l2) : layers.l2[j].timestamp <= layers.l1[1].timestamp

\* every unexpired pair of a snapshot member is in the tier, with its entry
Restores(pairs, tier) ==
    \A i \in 1..Len(pairs) :
        now - pairs[i][2].timestamp <= pairs[i][2].ttl =>
            /\ TierHas(tier, pairs[i][1])
            /\ TierGet(tier, pairs[i][1]) = pairs[i][2]

\* no entry of the tier is older than its ttl
Purged(tier) == \A i \in 1..Len(tier) : now - tier[i].timestamp <= tier[i].ttl

\* C25: the load at startup, before anything is cached, restores every
\* unexpired entry of an intact snapshot to the tier it was saved from and
\* leaves no entry older than its ttl; with a snapshot that is missing or
\* corrupt, both tiers are empty afterwards.
C25_LoadOrStartEmpty ==
    [][(LoadFromDisk /\ layers = [l1 |-> << >>, l2 |-> << >>]) =>
          IF disk.kind = "json" /\ disk.malformed = {}
          THEN /\ Restores(disk.l1, layers'.l1) /\ Restores(disk.l2, layers'.l2)
               /\ Purged(layers'.l1) /\ Purged(layers'.l2)
          ELSE layers' = [l1 |-> << >>, l2 |-> << >>]]_vars

\* the hot tier holds the answer get stored for the question
AnsweredHot(question, entry) ==
    /\ \E n \in 1..Len(ObjectIds) : entry.key = requestKey(question, ObjectIds[n])
    /\ TierHas(layers.l1, entry.key)
    /\ TierGet(layers.l1, entry.key) = entry

\* the question matches no canned answer and no category pattern
Uncategorised(question) ==
    /\ \A n \in 1..Len(preloadedResponses) :
          ~includes(trim(toLowerCase(question)), preloadedResponses[n].key)
    /\ \A n \in 1..Len(patterns) : ~regexTest(patterns[n], trim(toLowerCase(question)))

\* C26: once a question has been answered through get and its entry is in
\* the hot tier, a later question that matches no canned or category answer
\* and is more than 0.8 similar to it is answered by findSimilar with the
\* cached answer, and no generator is invoked.
C26_SimilarAnswered ==
    [][\A earlier \in Questions, later \in Questions :
          \A i \in 1..Len(layers.l1) :
             (/\ AnsweredHot(earlier, layers.l1[i])
              /\ layers.l1[i].value.success
              /\ Uncategorised(later)
              /\ similarAbove(trim(toLowerCase(later)), trim(toLowerCase(earlier)))
              /\ Answer(later))
             => /\ inflight' = inflight
                /\ cacheResult'.kind = "value"
                /\ cacheResult'.value = layers.l1[i].value.message]_vars

\* C27: a message without booking intent on a session in state NONE ends
\* in a turn that completes with a reply, and the session is persisted.
C27_QuestionAnswered ==
    [][\A s \in Sessions, m \in Messages, text \in Generations :
          AskQuestion(s, m, text) =>
              /\ response'[s].status = 200
              /\ conversations'[s].exists]_vars

\* C28: a Q&A turn during which the upstream text generator fails still
\* completes, and the user receives the fixed apology message.
C28_ApologyOnFailure ==
    [][\A s \in Sessions, m \in Messages :
          AskQuestion(s, m, "fails") => response'[s] = Reply(Apology, "NONE")]_vars

\* C29: overlapping turns of a session lose no update: when a request that
\* is not rejected saves the session, every draft field that another turn
\* has written since the request loaded the session is still there.
C29_NoLostUpdate ==
    [][\A r \in Overlapping :
          (Respond(r) /\ response'[OverlapSession].status = 200) =>
              \A f \in DraftFields :
                  conversations[OverlapSession].appointmentData[f]
                        # requests[r].doc.appointmentData[f]
                  => conversations'[OverlapSession].appointmentData[f]
                        = conversations[OverlapSession].appointmentData[f]]_vars

\* C30: a yes turn that loaded the session at the confirmation step creates
\* no Appointment when another yes turn has created one for the booking since.
C30_OneAppointment ==
    [][\A r \in Overlapping :
          (/\ Respond(r)
           /\ requests[r].doc.appointmentState = "COMPLETED"
           /\ IsYes(requests[r].message)
           /\ Len(appointments) > requests[r].seen)
          => appointments' = appointments]_vars

\* C31: when the Appointment cannot be persisted in the yes turn, the caller
\* receives a generic error and the persisted session is in state NONE
\* afterwards (the reset of the booking state is not rolled back).
C31_ResetSurvivesFailure ==
    [][\A s \in Sessions, m \in Messages :
          AppointmentSaveFails(s, m) =>
              /\ response'[s] = ErrorReply(500, "An error occurred")
              /\ conversations'[s].appointmentState = "NONE"]_vars

\* C32: for one client IP, the requests the rate limiter lets through to
\* /api/chat within any window of one interval are at most the endpoint's
\* limit, and likewise for /api/appointments.
C32_AtMostLimitPerWindow ==
    \A ip \in IPs, path \in {pApiChat, pApiAppointments} :
        Len(admittedAt(admitted, ip, path)) <= limits[path].tokens

\* C33: a request to the health endpoint bypasses the rate limiter: it is
\* never answered 429, takes no token and triggers no block, blocked client
\* or not.
C33_HealthBypasses ==
    [][\A ip \in IPs, suspicious \in BOOLEAN :
          LimiterRequest(ip, pHealth, suspicious) =>
              /\ verdict'.status # 429
              /\ buckets' = buckets
              /\ unblockTimers' = unblockTimers]_vars

\* C34: getSlotKey gives two instants the same key exactly when they fall in
\* the same 30-minute bucket (same date, same hour, minutes both in 0..29 or
\* both in 30..59), and the key is the start of the bucket, with seconds and
\* milliseconds zero.
HalfHourOf(ms) ==
    [day |-> ms \div (MinutesPerDay * MsPerMinute),
     hour |-> (ms \div (60 * MsPerMinute)) % 24,
     secondHalf |-> (ms \div MsPerMinute) % 60 >= 30]

BucketStart(ms) ==
    LET b == HalfHourOf(ms)
    IN  (b.day * MinutesPerDay + b.hour * 60 + (IF b.secondHalf THEN 30 ELSE 0)) * MsPerMinute

C34_KeyIsBucket ==
    /\ \A a \in slotKeys, b \in slotKeys :
          (a.key = b.key) <=> (HalfHourOf(a.date) = HalfHourOf(b.date))
    /\ \A a \in slotKeys :
          /\ a.key = BucketStart(a.date)
          /\ (a.key % MsPerMinute) = 0

\* every Date has been keyed: among them two of one bucket that differ in
\* their seconds, and two of one hour on either side of the half hour
C34_Witness ==
    /\ {a.date : a \in slotKeys} = KeyDates
    /\ \E a \in slotKeys, b \in slotKeys :
          /\ a.date # b.date
          /\ a.key = b.key
          /\ (a.date % MsPerMinute) # (b.date % MsPerMinute)
    /\ \E a \in slotKeys, b \in slotKeys :
          /\ a.key # b.key
          /\ b.date - a.date < 30 * MsPerMinute
          /\ a.date < b.date

\* C35: once the user has answered no at the confirmation step, the session
\* holds no live reservation (the bucket it had reserved is free for any
\* session at once), and no session ever holds more than one unconfirmed
\* reservation.
LiveReservations(slots, s, current) ==
    {key \in DOMAIN slots :
        /\ slots[key].type = "reserved"
        /\ slots[key].sessionId = s
        /\ ~(slots[key].expiresAt < current)}

C35_NoReleases ==
    [][/\ \A s \in Sessions, m \in Messages :
             ConfirmNo(s, m) => LiveReservations(bookedSlots', s, now') = {}
       /\ \A s \in Sessions :
             Cardinality(LiveReservations(bookedSlots', s, now')) <= 1]_vars

\* C36: whatever the interleaving of the date/time turns of different
\* sessions, two live entries of the slot map at different keys are never
\* within the buffer window of each other: their dates are at least
\* slotDuration + bufferTime minutes apart.
LiveEntry(entry, current) ==
    entry.type = "confirmed" \/ ~(entry.expiresAt < current)

C36_BufferKept ==
    \A k1 \in DOMAIN bookedSlots, k2 \in DOMAIN bookedSlots :
        (/\ k1 # k2
         /\ LiveEntry(bookedSlots[k1], now)
         /\ LiveEntry(bookedSlots[k2], now)
         /\ bookedSlots[k1].date <= bookedSlots[k2].date)
        => bookedSlots[k2].date - bookedSlots[k1].date >= slotDuration + bufferTime

\* C37: the release timer of a reserveSlot call removes only the reservation
\* that call created: when the session has reserved the bucket again after
\* the first reservation lapsed, the first call's timer, firing late, leaves
\* the newer, unexpired reservation in the slot map.
ReservedAgain(t) ==
    /\ t.slotKey \in DOMAIN bookedSlots
    /\ bookedSlots[t.slotKey].type = "reserved"
    /\ bookedSlots[t.slotKey].sessionId = t.sessionId
    /\ bookedSlots[t.slotKey].expiresAt - ReservationMinutes > t.due
    /\ ~(bookedSlots[t.slotKey].expiresAt < now)

C37_ReleasesOwnReservation ==
    [][\A t \in timers :
          (TimerFire(t) /\ ReservedAgain(t)) => bookedSlots' = bookedSlots]_vars

\* C38: slot confirmation and Appointment creation succeed or fail together
\* in the yes turn: after the turn the session's slot entry is confirmed if
\* and only if an Appointment for the booking has been persisted.
HasConfirmed(slots, s) ==
    \E key \in DOMAIN slots :
        slots[key].type = "confirmed" /\ slots[key].sessionId = s

C38_ConfirmedIffPersisted ==
    [][\A s \in Sessions, m \in Messages :
          (ConfirmYes(s, m) \/ AppointmentSaveFails(s, m)) =>
              (HasConfirmed(bookedSlots', s) <=> Len(appointments') > Len(appointments))]_vars

\* C39: the apology that stands in for a failed generation is never stored
\* as a cache entry: no tier ever holds it, and a get for a key whose
\* generation failed does not return it from the cache.
HoldsApology(tiers) ==
    \E tier \in {tiers.l1, tiers.l2} :
        \E j \in 1..Len(tier) : tier[j].value = generateResponse("fails")

C39_ApologyNotCached ==
    [][/\ ~HoldsApology(layers')
       /\ \A call \in CacheCalls :
             (Get(call[1], call[2]) /\ lookup(layers, generateKey(call[1]), now).hit)
             => lookup(layers, generateKey(call[1]), now).value # generateResponse("fails")]_vars

=============================================================================
